---- MODULE Spec2Model ----
(***************************************************************************)
(* A model of the RPGConsole combat and progression engine: characters     *)
(* (models/character.py, models/hero.py, models/monster.py), the inventory *)
(* and its items (models/inventory.py, models/items/*.py), the combat      *)
(* service (services/combat_service.py) and the two leveling               *)
(* implementations (Hero.gain_experience, services/leveling_service.py).   *)
(***************************************************************************)
EXTENDS Integers, Sequences, FiniteSets, TLC

VARIABLES
    hero,       \* the Hero object (models/hero.py)
    inventory,  \* hero.inventory (models/inventory.py)
    monster,    \* the Monster of the running combat (models/monster.py)
    pc,         \* where the combat service stands
    result,     \* what start_combat returned: "none", "victory", "defeat"
    turn,       \* history of the running turn
    log,        \* history of the running combat
    combats,    \* number of combats started in this session
    lvl,        \* the running gain-experience call
    last,       \* the last library call made on the hero or the inventory
    zone,       \* GameService.current_zone (models/world/zone.py)
    slots,      \* the save files, by slot number
    loop        \* where GameService._main_game_loop stands

vars == <<hero, inventory, monster, pc, result, turn, log, combats, lvl, last,
          zone, slots, loop>>

(***************************************************************************)
(* Bounds of the model                                                     *)
(***************************************************************************)
\* start_combat accepts any Monster: attacks MonsterBaseAttack .. +MaxAttackExtra
MaxAttackExtra == 1
\* combats started in one session
MaxCombats == 2
\* largest item number the player types at the item prompt
MaxItemInput == 3

(***************************************************************************)
(* Program constants                                                       *)
(***************************************************************************)
HeroDefaultHealth == 100
HeroDefaultAttack == 15
MonsterBaseHealth == 60
MonsterBaseAttack == 12
PotionHeal == 50
FoodHeal == 20
HealCap == 100
SwordBonus == 5
ArmorBonus == 3
MaxSlots == 20
FirstThreshold == 100

Max(a, b) == IF a >= b THEN a ELSE b
Min(a, b) == IF a <= b THEN a ELSE b

(***************************************************************************)
(* Character (models/character.py)                                         *)
(***************************************************************************)
take_damage_noclamp(c, damage) == [c EXCEPT !.health = c.health - damage]

\* Character.take_damage: subtract, then clamp at 0
take_damage(c, damage) ==
    LET h == c.health - damage
    IN  [c EXCEPT !.health = IF h < 0 THEN 0 ELSE h]

\* Character.is_alive
is_alive(c) == c.health > 0

\* Character.defend
defend(c) == [c EXCEPT !.is_defending = TRUE]

\* Character.reset_defense
reset_defense(c) == [c EXCEPT !.is_defending = FALSE]

\* Monster.__init__ -> Character.__init__
NewMonster(name, health, attack) ==
    [name |-> name, health |-> health, attack |-> attack, is_defending |-> FALSE]

\* Hero.__init__ (the inventory is the variable inventory)
NewHero(health, attack) ==
    [health |-> health, attack |-> attack, is_defending |-> FALSE,
     level |-> 1, experience |-> 0, experience_to_next |-> FirstThreshold,
     skill_points |-> 0, base_health |-> health, base_attack |-> attack,
     equipment_attack_bonus |-> 0, equipment_defense_bonus |-> 0]

\* Hero.get_total_attack
get_total_attack(h) == h.attack

(***************************************************************************)
(* Items (models/items/consumable.py, models/items/equipment.py)           *)
(***************************************************************************)
\* create_starter_sword
StarterSword ==
    [name |-> "Iron Sword", type |-> "Weapon", amount |-> SwordBonus,
     required_level |-> 1, equipped |-> FALSE]

\* create_leather_armor
LeatherArmor ==
    [name |-> "Leather Armor", type |-> "Armor", amount |-> ArmorBonus,
     required_level |-> 1, equipped |-> FALSE]

\* HealthPotion()
NewHealthPotion ==
    [name |-> "Health Potion", type |-> "HealthPotion", amount |-> PotionHeal,
     required_level |-> 1, equipped |-> FALSE]

\* Food()
NewFood ==
    [name |-> "Bread", type |-> "Food", amount |-> FoodHeal,
     required_level |-> 1, equipped |-> FALSE]

IsConsumable(item) == item.type \in {"HealthPotion", "Food"}

\* ConsumableItem.can_use / Equipment.can_use: any living character
base_can_use(item, target) == is_alive(target)

\* HealthPotion.can_use
potion_can_use(item, target) == base_can_use(item, target) /\ target.health < HealCap

\* Equipment.can_equip
can_equip(item, character) == character.level >= item.required_level

\* Item.use, dispatched on the item's class; the result is
\* [ok, target, item]: the return value, the target and the item afterwards
item_use(item, target) ==
    CASE item.type = "HealthPotion" ->
            IF ~potion_can_use(item, target)
            THEN [ok |-> FALSE, target |-> target, item |-> item]
            ELSE [ok |-> TRUE,
                  target |-> [target EXCEPT
                                !.health = Min(target.health + item.amount, HealCap)],
                  item |-> item]
      [] item.type = "Food" ->
            IF ~base_can_use(item, target)
            THEN [ok |-> FALSE, target |-> target, item |-> item]
            ELSE [ok |-> TRUE,
                  target |-> [target EXCEPT
                                !.health = Min(target.health + item.amount, HealCap)],
                  item |-> item]
      [] OTHER ->  \* Weapon and Armor: Equipment.use toggles
            IF ~base_can_use(item, target)
            THEN [ok |-> FALSE, target |-> target, item |-> item]
            ELSE IF item.equipped
                 THEN [ok |-> TRUE,
                       target |-> [target EXCEPT !.attack = target.attack - item.amount],
                       item |-> [item EXCEPT !.equipped = FALSE]]
                 ELSE IF can_equip(item, target)
                      THEN [ok |-> TRUE,
                            target |-> [target EXCEPT
                                          !.attack = target.attack + item.amount],
                            item |-> [item EXCEPT !.equipped = TRUE]]
                      ELSE [ok |-> TRUE, target |-> target, item |-> item]

(***************************************************************************)
(* Inventory (models/inventory.py): items is the dict name -> list, kept   *)
(* as the sequence of its stacks in insertion order                        *)
(***************************************************************************)
RECURSIVE SumLens(_)
SumLens(stacks) ==
    IF stacks = <<>> THEN 0 ELSE Len(Head(stacks).insts) + SumLens(Tail(stacks))

\* Inventory.get_total_slots_used
get_total_slots_used(inv) == SumLens(inv.items)

StackIndex(inv, name) ==
    IF \E i \in 1..Len(inv.items) : inv.items[i].name = name
    THEN CHOOSE i \in 1..Len(inv.items) : inv.items[i].name = name
    ELSE 0

add_item_nocap(inv, item) ==
    LET i == StackIndex(inv, item.name)
    IN  [ok |-> TRUE,
         inv |-> IF i = 0
                 THEN [inv EXCEPT !.items =
                         Append(@, [name |-> item.name, insts |-> <<item>>])]
                 ELSE [inv EXCEPT !.items[i].insts = Append(@, item)]]

\* Inventory.add_item: [ok, inv]
add_item(inv, item) ==
    IF get_total_slots_used(inv) >= inv.max_slots
    THEN [ok |-> FALSE, inv |-> inv]
    ELSE LET i == StackIndex(inv, item.name)
         IN  [ok |-> TRUE,
              inv |-> IF i = 0
                      THEN [inv EXCEPT !.items =
                              Append(@, [name |-> item.name, insts |-> <<item>>])]
                      ELSE [inv EXCEPT !.items[i].insts = Append(@, item)]]

RemoveAt(s, i) == SubSeq(s, 1, i - 1) \o SubSeq(s, i + 1, Len(s))

remove_item_oldest_first(inv, name, quantity) ==
    LET i == StackIndex(inv, name)
    IN  IF i = 0 \/ Len(inv.items[i].insts) < quantity
        THEN [ok |-> FALSE, inv |-> inv]
        ELSE LET left == SubSeq(inv.items[i].insts, quantity + 1,
                                Len(inv.items[i].insts))
             IN  [ok |-> TRUE,
                  inv |-> IF left = <<>>
                          THEN [inv EXCEPT !.items = RemoveAt(@, i)]
                          ELSE [inv EXCEPT !.items[i].insts = left]]

\* Inventory.remove_item: [ok, inv]
remove_item(inv, name, quantity) ==
    LET i == StackIndex(inv, name)
    IN  IF i = 0 \/ Len(inv.items[i].insts) < quantity
        THEN [ok |-> FALSE, inv |-> inv]
        ELSE LET left == SubSeq(inv.items[i].insts, 1,
                                Len(inv.items[i].insts) - quantity)
             IN  [ok |-> TRUE,
                  inv |-> IF left = <<>>
                          THEN [inv EXCEPT !.items = RemoveAt(@, i)]
                          ELSE [inv EXCEPT !.items[i].insts = left]]

RECURSIVE Flatten(_)
\* Inventory.get_all_items
Flatten(stacks) ==
    IF stacks = <<>> THEN <<>> ELSE Head(stacks).insts \o Flatten(Tail(stacks))

get_all_items(inv) == Flatten(inv.items)

\* Inventory.get_consumables
get_consumables(inv) == SelectSeq(get_all_items(inv), IsConsumable)

\* Inventory.__init__ followed by Inventory.initialize_starter_gear
StarterInventory ==
    LET i0 == [max_slots |-> MaxSlots, gold |-> 0, items |-> <<>>]
        i1 == add_item(i0, StarterSword).inv
        i2 == add_item(i1, LeatherArmor).inv
        i3 == add_item(i2, NewHealthPotion).inv
    IN  add_item(i3, NewFood).inv

use_item_always_removes(h, inv, name) ==
    LET i == StackIndex(inv, name)
    IN  IF i = 0
        THEN [ok |-> FALSE, hero |-> h, inv |-> inv]
        ELSE LET r == item_use(inv.items[i].insts[1], h)
                 used == [inv EXCEPT !.items[i].insts[1] = r.item]
             IN  [ok |-> r.ok, hero |-> r.target,
                  inv |-> remove_item(used, name, 1).inv]

\* Hero.use_item: [ok, hero, inv]
use_item(h, inv, name) ==
    LET i == StackIndex(inv, name)
    IN  IF i = 0
        THEN [ok |-> FALSE, hero |-> h, inv |-> inv]
        ELSE LET r == item_use(inv.items[i].insts[1], h)
                 used == [inv EXCEPT !.items[i].insts[1] = r.item]
             IN  IF r.ok
                 THEN [ok |-> TRUE, hero |-> r.target,
                       inv |-> remove_item(used, name, 1).inv]
                 ELSE [ok |-> FALSE, hero |-> r.target, inv |-> used]

(***************************************************************************)
(* Combat (services/combat_service.py)                                     *)
(***************************************************************************)
\* the numbers get_combat_choice can return: the four menu entries and two
\* that are not on the menu
CombatChoices == 0..5

NoHit == [pre |-> 0, dmg |-> 0, defended |-> FALSE]
NewTurn == [choice |-> -1, hits |-> 0, item |-> "none", resets |-> 0]
NewLog == [turns |-> 0, attacks |-> 0, hits |-> 0, defends |-> 0, halved |-> 0,
           last |-> NoHit, prev |-> NoHit]
NoMonster == NewMonster("none", 0, 0)
\* no library call made yet
NoOp == [op |-> "none", ok |-> TRUE, name |-> "none", qty |-> 0,
         before |-> 0, held |-> 0]
NoCall == [pc |-> "idle", kind |-> "none", amount |-> 0, iters |-> 0,
           leveled_up |-> FALSE, pre |-> NewHero(HeroDefaultHealth, HeroDefaultAttack)]

start_combat_result_always_true(h) == TRUE

\* start_combat line 45: return hero.is_alive()
start_combat_result(h) == is_alive(h)

start_combat_continues_with_dead_hero(h, m) == is_alive(m)

\* start_combat line 42: the loop condition
start_combat_continues(h, m) == is_alive(h) /\ is_alive(m)

\* _process_hero_attack: hero.attack(monster). Character.__init__ stores the
\* attack value in the instance attribute `attack` (character.py line 27), which
\* hides the method Hero.attack, so the call is a call of an integer and raises
\* TypeError before any damage is dealt.
process_hero_attack(h, m) == [raised |-> TRUE, hero |-> h, monster |-> m]

\* _process_hero_defense
process_hero_defense(h) == defend(h)

process_skill_usage_hits(h, m) ==
    [hero |-> h, monster |-> take_damage(m, get_total_attack(h))]

\* _process_skill_usage: two messages, nothing else
process_skill_usage(h, m) == [hero |-> h, monster |-> m]

item_usage_next_reprompt(inv) ==
    IF get_consumables(inv) = <<>> THEN "await" ELSE "item"

\* _process_item_usage lines 108-111: without consumables it returns to
\* _execute_turn, which goes on to the monster's turn; with consumables it
\* waits for the player's selection (line 118)
item_usage_next(inv) ==
    IF get_consumables(inv) = <<>> THEN "monster" ELSE "item"

\* _process_item_usage lines 117-130 once the player has typed: numeric is
\* false when int() raises ValueError, k is the number typed otherwise
process_item_choice(h, inv, numeric, k) ==
    LET consumables == get_consumables(inv)
    IN  IF ~numeric THEN [hero |-> h, inv |-> inv]
        ELSE IF k = 0 THEN [hero |-> h, inv |-> inv]
        ELSE IF 1 <= k /\ k <= Len(consumables)
             THEN LET r == use_item(h, inv, consumables[k].name)
                  IN  [hero |-> r.hero, inv |-> r.inv]
             ELSE [hero |-> h, inv |-> inv]

\* which branch of lines 117-130 the selection took (history only)
item_choice_outcome(h, inv, numeric, k) ==
    LET consumables == get_consumables(inv)
    IN  IF ~numeric THEN "invalid"
        ELSE IF k = 0 THEN "cancel"
        ELSE IF 1 <= k /\ k <= Len(consumables)
             THEN IF use_item(h, inv, consumables[k].name).ok THEN "used" ELSE "refused"
             ELSE "invalid"

process_monster_turn_keeps_guard(h, m) ==
    IF h.is_defending
    THEN take_damage(h, m.attack \div 2)
    ELSE take_damage(h, m.attack)

\* _process_monster_turn
process_monster_turn(h, m) ==
    IF h.is_defending
    THEN reset_defense(take_damage(h, m.attack \div 2))
    ELSE take_damage(h, m.attack)

\* _execute_turn line 76
monster_acts(m) == is_alive(m)

\* _process_monster_turn line 158: the calls of hero.reset_defense() it makes
monster_turn_resets(h) == IF h.is_defending THEN 1 ELSE 0

(***************************************************************************)
(* Zones (models/world/zone.py)                                            *)
(***************************************************************************)
\* CombatZone.__init__ without monster_types
DefaultMonsterTypes == <<"Goblin", "Ogre", "Orc", "Slime">>

\* create_town
create_town ==
    [name |-> "Peaceful Town", type |-> "SafeZone", danger_level |-> 0,
     discovered |-> FALSE, visited |-> FALSE, monster_types |-> <<>>]

\* create_forest
create_forest ==
    [name |-> "Peaceful Forest", type |-> "CombatZone", danger_level |-> 1,
     discovered |-> FALSE, visited |-> FALSE, monster_types |-> <<"Goblin", "Slime">>]

\* create_cave
create_cave ==
    [name |-> "Dark Cave", type |-> "CombatZone", danger_level |-> 2,
     discovered |-> FALSE, visited |-> FALSE,
     monster_types |-> <<"Goblin", "Ogre", "Orc">>]

\* create_mountain
create_mountain ==
    [name |-> "Snowy Mountain", type |-> "CombatZone", danger_level |-> 3,
     discovered |-> FALSE, visited |-> FALSE, monster_types |-> <<"Ogre", "Orc">>]

\* create_castle
create_castle ==
    [name |-> "Ancient Castle", type |-> "CombatZone", danger_level |-> 4,
     discovered |-> FALSE, visited |-> FALSE, monster_types |-> <<"Orc", "Ogre">>]

\* Zone.mark_discovered
mark_discovered(z) == [z EXCEPT !.discovered = TRUE]

\* Zone.mark_visited
mark_visited(z) == [z EXCEPT !.visited = TRUE]

\* a save file: missing, holding a JSON object, or holding no JSON at all
NoFile == [kind |-> "absent"]
Garbled == [kind |-> "garbled"]
JsonFile(data) == [kind |-> "json", data |-> data]

\* the save slots: 0 for auto_save, 1-3 for the player
AutoSaveSlot == 0
FirstManualSlot == 1
LastManualSlot == 3
SaveSlots == AutoSaveSlot..LastManualSlot

\* _main_game_loop before the first action is requested
NewLoop == [pc |-> "prompt", action |-> "none", autosave |-> "none",
            actions |-> 0, manual |-> 0]

\* the zones of GameService: _handle_travel line 220
Zones == {create_town, create_forest, create_cave}

(***************************************************************************)
(* The session                                                             *)
(***************************************************************************)
\* GameService._start_new_game: Hero(hero_name)
Init ==
    /\ hero = NewHero(HeroDefaultHealth, HeroDefaultAttack)
    /\ inventory = StarterInventory
    /\ monster = NoMonster
    /\ pc = "idle"
    /\ result = "none"
    /\ turn = NewTurn
    /\ log = NewLog
    /\ combats = 0
    /\ lvl = NoCall
    /\ last = NoOp
    /\ zone = mark_visited(mark_discovered(create_forest))
    /\ slots = [slot \in SaveSlots |-> NoFile]
    /\ loop = NewLoop

\* CombatService.start_combat is entered with a fresh monster
StartCombat(extra) ==
    /\ pc = "idle"
    /\ combats < MaxCombats
    /\ monster' = NewMonster("Slime", MonsterBaseHealth, MonsterBaseAttack + extra)
    /\ pc' = "loop"
    /\ result' = "none"
    /\ turn' = NewTurn
    /\ log' = NewLog
    /\ combats' = combats + 1
    /\ UNCHANGED <<hero, inventory, lvl, last,
                 zone, slots, loop>>

\* start_combat lines 42-45: the loop test, and the return when it fails
LoopCheck ==
    /\ pc = "loop"
    /\ IF start_combat_continues(hero, monster)
       THEN /\ pc' = "await"
            /\ result' = result
       ELSE /\ pc' = "returned"
            /\ result' = IF start_combat_result(hero) THEN "victory" ELSE "defeat"
    /\ turn' = NewTurn
    /\ UNCHANGED <<hero, inventory, monster, log, combats, lvl, last,
                 zone, slots, loop>>

\* _execute_turn lines 59-73: the choice arrives, the guard is dropped, the
\* chosen action is carried out
HeroAction(c) ==
    /\ pc = "await"
    /\ turn' = [turn EXCEPT !.choice = c,
                             !.resets = @ + 1,
                             !.item = IF c = 3 /\ get_consumables(inventory) = <<>>
                                      THEN "no_items" ELSE "none"]
    /\ LET h == reset_defense(hero)
       IN  CASE c = 1 ->
                  LET r == process_hero_attack(h, monster)
                  IN  /\ hero' = r.hero
                      /\ monster' = r.monster
                      /\ pc' = IF r.raised THEN "raised" ELSE "monster"
                      /\ log' = [log EXCEPT !.turns = @ + 1, !.attacks = @ + 1]
             [] c = 2 ->
                  /\ hero' = process_hero_defense(h)
                  /\ monster' = monster
                  /\ pc' = "monster"
                  /\ log' = [log EXCEPT !.turns = @ + 1, !.defends = @ + 1]
             [] c = 3 ->
                  /\ hero' = h
                  /\ monster' = monster
                  /\ pc' = item_usage_next(inventory)
                  /\ log' = [log EXCEPT !.turns = @ + 1]
             [] c = 4 ->
                  LET r == process_skill_usage(h, monster)
                  IN  /\ hero' = r.hero
                      /\ monster' = r.monster
                      /\ pc' = "monster"
                      /\ log' = [log EXCEPT !.turns = @ + 1]
             [] OTHER ->
                  /\ hero' = h
                  /\ monster' = monster
                  /\ pc' = "monster"
                  /\ log' = [log EXCEPT !.turns = @ + 1]
    /\ UNCHANGED <<inventory, result, combats, lvl, last,
                 zone, slots, loop>>

\* _process_item_usage lines 117-130: the selection arrives
ItemChoice(numeric, k) ==
    /\ pc = "item"
    /\ LET r == process_item_choice(hero, inventory, numeric, k)
       IN  /\ hero' = r.hero
           /\ inventory' = r.inv
    /\ turn' = [turn EXCEPT !.item = item_choice_outcome(hero, inventory, numeric, k)]
    /\ pc' = "monster"
    /\ UNCHANGED <<monster, result, log, combats, lvl, last,
                 zone, slots, loop>>

\* _execute_turn lines 75-77: the monster's turn
MonsterPhase ==
    /\ pc = "monster"
    /\ IF monster_acts(monster)
       THEN LET h == process_monster_turn(hero, monster)
                hit == [pre |-> hero.health,
                        dmg |-> IF hero.is_defending THEN monster.attack \div 2
                                ELSE monster.attack,
                        defended |-> hero.is_defending]
            IN  /\ hero' = h
                /\ turn' = [turn EXCEPT !.hits = @ + 1,
                                        !.resets = @ + monster_turn_resets(hero)]
                /\ log' = [log EXCEPT !.hits = @ + 1,
                                      !.halved = IF hero.is_defending THEN @ + 1 ELSE @,
                                      !.prev = log.last,
                                      !.last = hit]
       ELSE UNCHANGED <<hero, turn, log>>
    /\ pc' = "loop"
    /\ UNCHANGED <<inventory, monster, result, combats, lvl, last,
                 zone, slots, loop>>

\* GameService._handle_exploration after start_combat: a defeat is announced
\* and the main loop goes on
EndCombat ==
    /\ pc = "returned"
    /\ pc' = IF result = "victory" THEN "award" ELSE "idle"
    /\ monster' = NoMonster
    /\ UNCHANGED <<hero, inventory, result, turn, log, combats, lvl, last,
                 zone, slots, loop>>

\* GameService._show_inventory: the player uses a consumable between combats
InventoryMenu(numeric, k) ==
    /\ pc = "idle"
    /\ get_consumables(inventory) # <<>>
    /\ LET r == process_item_choice(hero, inventory, numeric, k)
       IN  /\ hero' = r.hero
           /\ inventory' = r.inv
    /\ UNCHANGED <<monster, pc, result, turn, log, combats, lvl, last,
                 zone, slots, loop>>

Next ==
    \/ \E extra \in 0..MaxAttackExtra : StartCombat(extra)
    \/ LoopCheck
    \/ \E c \in CombatChoices : HeroAction(c)
    \/ \E numeric \in BOOLEAN, k \in 0..MaxItemInput : ItemChoice(numeric, k)
    \/ MonsterPhase
    \/ EndCombat
    \/ \E numeric \in BOOLEAN, k \in 0..MaxItemInput : InventoryMenu(numeric, k)

Spec == Init /\ [][Next]_vars

(***************************************************************************)
(* Leveling: Hero.gain_experience (models/hero.py) and                     *)
(* LevelingService.process_experience_gain (services/leveling_service.py)  *)
(***************************************************************************)
\* bounds of the leveling session
MaxGrantUnits == 10
MaxLevel == 4
MaxIters == 4

\* program constants of the two implementations
XpUnit == 25
HealthGrowth == 10
AttackGrowth == 2
LinearStep == 500
LastTableLevel == 10

\* the XP amounts granted in the model: 0, 25, ..., XpUnit * MaxGrantUnits
Grants == {XpUnit * k : k \in 0..MaxGrantUnits}

\* LevelingService.XP_REQUIREMENTS
XP_REQUIREMENTS ==
    <<0, 100, 250, 450, 700, 1000, 1350, 1750, 2200, 2700>>

\* LevelingService.calculate_experience_for_level
calculate_experience_for_level(level) ==
    IF level \in 1..LastTableLevel
    THEN XP_REQUIREMENTS[level]
    ELSE XP_REQUIREMENTS[LastTableLevel] + (level - LastTableLevel) * LinearStep

RECURSIVE table_level(_, _)
\* calculate_level_from_experience lines 81-86: the loop over the table from
\* the entry level on, which stops at the first requirement that is not met
table_level(total_xp, level) ==
    IF level > LastTableLevel \/ total_xp < XP_REQUIREMENTS[level]
    THEN level - 1
    ELSE table_level(total_xp, level + 1)

\* LevelingService.calculate_level_from_experience, for total_xp >= 0
calculate_level_from_experience(total_xp) ==
    IF total_xp > XP_REQUIREMENTS[LastTableLevel]
    THEN LastTableLevel
            + ((total_xp - XP_REQUIREMENTS[LastTableLevel]) \div LinearStep) + 1
    ELSE table_level(total_xp, 1)

\* Hero._level_up; int(experience_to_next * 1.5) is floor(3 * x / 2)
hero_level_up(h) ==
    [h EXCEPT !.experience = @ - h.experience_to_next,
              !.level = @ + 1,
              !.skill_points = @ + 1,
              !.base_health = @ + HealthGrowth,
              !.base_attack = @ + AttackGrowth,
              !.health = @ + HealthGrowth,
              !.attack = @ + AttackGrowth,
              !.experience_to_next = (@ * 3) \div 2]

\* Hero.gain_experience line 69: the loop condition
hero_can_level_up(h) == h.experience >= h.experience_to_next

\* LevelingService.apply_level_up: stats and a skill point; neither level nor
\* experience is touched
apply_level_up(h) ==
    [h EXCEPT !.base_health = @ + HealthGrowth,
              !.base_attack = @ + AttackGrowth,
              !.health = @ + HealthGrowth,
              !.attack = @ + AttackGrowth,
              !.skill_points = @ + 1]

\* LevelingService.can_level_up
can_level_up(h) == h.experience >= calculate_experience_for_level(h.level + 1)

\* Hero.gain_experience lines 66-67, up to the loop
GainExperienceCall(amount) ==
    /\ lvl.pc = "idle"
    /\ hero.level < MaxLevel
    /\ hero' = [hero EXCEPT !.experience = @ + amount]
    /\ lvl' = [pc |-> "loop", kind |-> "hero", amount |-> amount, iters |-> 0,
               leveled_up |-> FALSE, pre |-> hero]
    /\ UNCHANGED <<inventory, monster, pc, result, turn, log, combats, last,
                 zone, slots, loop>>

\* Hero.gain_experience lines 69-73: one test of the loop condition, then one
\* pass through the body or the return
GainExperienceStep ==
    /\ lvl.pc = "loop"
    /\ lvl.kind = "hero"
    /\ IF hero_can_level_up(hero)
       THEN /\ hero' = hero_level_up(hero)
            /\ lvl' = [lvl EXCEPT !.iters = @ + 1, !.leveled_up = TRUE]
       ELSE /\ hero' = hero
            /\ lvl' = [lvl EXCEPT !.pc = "done"]
    /\ UNCHANGED <<inventory, monster, pc, result, turn, log, combats, last,
                 zone, slots, loop>>

\* LevelingService.process_experience_gain lines 204-208, up to the loop
ProcessExperienceGainCall(amount) ==
    /\ lvl.pc = "idle"
    /\ hero.level < MaxLevel
    /\ hero' = [hero EXCEPT !.experience = @ + amount]
    /\ lvl' = [pc |-> "loop", kind |-> "service", amount |-> amount, iters |-> 0,
               leveled_up |-> FALSE, pre |-> hero]
    /\ UNCHANGED <<inventory, monster, pc, result, turn, log, combats, last,
                 zone, slots, loop>>

\* LevelingService.process_experience_gain lines 210-215: one test of the loop
\* condition, then one pass through the body or the return. The model follows
\* the loop for MaxIters passes.
ProcessExperienceGainStep ==
    /\ lvl.pc = "loop"
    /\ lvl.kind = "service"
    /\ IF can_level_up(hero)
       THEN /\ lvl.iters < MaxIters
            /\ hero' = apply_level_up(hero)
            /\ lvl' = [lvl EXCEPT !.iters = @ + 1, !.leveled_up = TRUE]
       ELSE /\ hero' = hero
            /\ lvl' = [lvl EXCEPT !.pc = "done"]
    /\ UNCHANGED <<inventory, monster, pc, result, turn, log, combats, last,
                 zone, slots, loop>>

\* the call has returned leveled_up (and levels_gained) to its caller
ExperienceReturn ==
    /\ lvl.pc = "done"
    /\ lvl' = NoCall
    /\ UNCHANGED <<hero, inventory, monster, pc, result, turn, log, combats, last,
                 zone, slots, loop>>

(***************************************************************************)
(* Python floats (binary64), as far as get_experience_reward uses them: a  *)
(* non-negative float is the natural number value * 2^56, kept as its      *)
(* little-endian digits in base 2^14; every float met here is a multiple of *)
(* 2^-56                                                                   *)
(***************************************************************************)
LimbBase == 2^14
MantissaBits == 53
\* digits of the scale 2^56 that are below the integer part
FractionLimbs == 4

\* the float literals of get_experience_reward (lines 140-144)
FloatOne == <<0, 0, 0, 0, 1>>
FloatOnePointFive == <<0, 0, 0, 8192, 1>>
\* 0.1 is the float 3602879701896397 * 2^-55
FloatTenth == <<6554, 9830, 6553, 1638>>
\* 0.2 is the float 3602879701896397 * 2^-54
FloatFifth == <<13108, 3276, 13107, 3276>>

RECURSIVE BigNorm(_)
BigNorm(n) ==
    IF n = <<>> THEN n
    ELSE IF n[Len(n)] = 0 THEN BigNorm(SubSeq(n, 1, Len(n) - 1)) ELSE n

RECURSIVE BigMulCarry(_, _, _)
\* n * k + c for a small k
BigMulCarry(n, k, c) ==
    IF n = <<>> THEN (IF c = 0 THEN <<>> ELSE <<c>>)
    ELSE LET t == Head(n) * k + c
         IN  <<t % LimbBase>> \o BigMulCarry(Tail(n), k, t \div LimbBase)

RECURSIVE BigAddCarry(_, _, _)
BigAddCarry(a, b, c) ==
    IF a = <<>> /\ b = <<>> THEN (IF c = 0 THEN <<>> ELSE <<c>>)
    ELSE LET x == IF a = <<>> THEN 0 ELSE Head(a)
             y == IF b = <<>> THEN 0 ELSE Head(b)
             t == x + y + c
         IN  <<t % LimbBase>> \o
             BigAddCarry(IF a = <<>> THEN a ELSE Tail(a),
                         IF b = <<>> THEN b ELSE Tail(b), t \div LimbBase)

RECURSIVE BigSubBorrow(_, _, _)
\* a - b - c for a >= b + c
BigSubBorrow(a, b, c) ==
    IF a = <<>> THEN <<>>
    ELSE LET y == IF b = <<>> THEN 0 ELSE Head(b)
             t == Head(a) - y - c
         IN  <<IF t < 0 THEN t + LimbBase ELSE t>> \o
             BigSubBorrow(Tail(a), IF b = <<>> THEN b ELSE Tail(b),
                          IF t < 0 THEN 1 ELSE 0)

RECURSIVE BigLess(_, _)
\* a < b, both without leading zeros
BigLess(a, b) ==
    IF Len(a) # Len(b) THEN Len(a) < Len(b)
    ELSE IF a = <<>> THEN FALSE
    ELSE IF a[Len(a)] # b[Len(b)] THEN a[Len(a)] < b[Len(b)]
    ELSE BigLess(SubSeq(a, 1, Len(a) - 1), SubSeq(b, 1, Len(b) - 1))

RECURSIVE BigDivRem(_, _)
\* quotient and remainder of n by a small k
BigDivRem(n, k) ==
    IF n = <<>> THEN [q |-> <<>>, r |-> 0]
    ELSE LET hi == BigDivRem(Tail(n), k)
             cur == hi.r * LimbBase + Head(n)
         IN  [q |-> <<cur \div k>> \o hi.q, r |-> cur % k]

RECURSIVE SmallBits(_)
SmallBits(x) == IF x = 0 THEN 0 ELSE 1 + SmallBits(x \div 2)

\* number of binary digits of n (without leading zeros)
BigBits(n) ==
    IF n = <<>> THEN 0 ELSE 14 * (Len(n) - 1) + SmallBits(n[Len(n)])

\* the result of a float operation whose exact value is n: n rounded to 53
\* significant bits, ties to the even mantissa
float_round(n) ==
    LET bits == BigBits(n)
    IN  IF bits <= MantissaBits THEN n
        ELSE LET k == 2^(bits - MantissaBits)
                 d == BigDivRem(n, k)
                 q == BigNorm(d.q)
                 up == \/ 2 * d.r > k
                       \/ 2 * d.r = k /\ q[1] % 2 = 1
             IN  BigNorm(BigMulCarry(IF up THEN BigAddCarry(q, <<1>>, 0) ELSE q, k, 0))

\* int(x) for a non-negative float below 2^28
float_to_int(n) ==
    (IF Len(n) > FractionLimbs THEN n[FractionLimbs + 1] ELSE 0)
    + (IF Len(n) > FractionLimbs + 1 THEN n[FractionLimbs + 2] * LimbBase ELSE 0)

\* LevelingService.get_experience_reward lines 138-144: the multiplier
reward_multiplier(level_diff) ==
    IF level_diff > 0
    THEN float_round(BigAddCarry(FloatOnePointFive,
                                 float_round(BigMulCarry(FloatFifth, level_diff, 0)), 0))
    ELSE IF level_diff < 0
    THEN LET t == float_round(BigMulCarry(FloatTenth, 0 - level_diff, 0))
         IN  \* 1.0 + (-t), then max(0.1, .)
             IF ~BigLess(t, FloatOne) THEN FloatTenth
             ELSE LET s == float_round(BigNorm(BigSubBorrow(FloatOne, t, 0)))
                  IN  IF BigLess(s, FloatTenth) THEN FloatTenth ELSE s
    ELSE FloatOne

\* LevelingService.get_experience_reward
get_experience_reward(enemy_level, hero_level) ==
    float_to_int(float_round(
        BigMulCarry(reward_multiplier(enemy_level - hero_level), XpUnit, 0)))

\* GameService._handle_exploration lines 160-161: the reward of a victory over
\* an enemy of level 1 is handed to process_experience_gain
VictoryReward ==
    ProcessExperienceGainCall(get_experience_reward(1, hero.level))

NextLevel ==
    \/ \E amount \in Grants : GainExperienceCall(amount)
    \/ GainExperienceStep
    \/ \E amount \in Grants : ProcessExperienceGainCall(amount)
    \/ ProcessExperienceGainStep
    \/ ExperienceReturn
    \/ VictoryReward

SpecLevel == Init /\ [][NextLevel]_vars

(***************************************************************************)
(* Equipment: Hero.equip_weapon / unequip_weapon (models/hero.py) and the  *)
(* items' own use / equip / unequip (models/items/equipment.py), called on *)
(* the hero outside a combat                                               *)
(***************************************************************************)
\* bounds of the equipment session
MaxWeaponBonus == 2
MaxBonusDrift == 5
MaxEquipLevel == 2

\* the weapons handed to Hero.equip_weapon: the starter sword and weapons of
\* other bonuses, some of them asking for level 2
Weapons ==
    {StarterSword} \cup
    { [name |-> "Blade", type |-> "Weapon", amount |-> b,
       required_level |-> r, equipped |-> FALSE] :
         b \in 1..MaxWeaponBonus, r \in 1..2 }

EquipmentNames == {"Iron Sword", "Leather Armor"}

\* get_stat_bonuses().get("attack", 0)
attack_bonus_of(item) == IF item.type = "Weapon" THEN item.amount ELSE 0

equip_weapon_stacks(h, weapon) ==
    IF can_equip(weapon, h)
    THEN [ok |-> TRUE,
          hero |-> [h EXCEPT !.attack = @ + attack_bonus_of(weapon),
                             !.equipment_attack_bonus = attack_bonus_of(weapon)]]
    ELSE [ok |-> FALSE, hero |-> h]

\* Hero.equip_weapon: [ok, hero]; the weapon object is not changed
equip_weapon(h, weapon) ==
    IF can_equip(weapon, h)
    THEN [ok |-> TRUE,
          hero |-> [h EXCEPT !.attack = (@ - h.equipment_attack_bonus)
                                           + attack_bonus_of(weapon),
                             !.equipment_attack_bonus = attack_bonus_of(weapon)]]
    ELSE [ok |-> FALSE, hero |-> h]

\* Hero.unequip_weapon
unequip_weapon(h, weapon) ==
    [h EXCEPT !.attack = @ - h.equipment_attack_bonus,
              !.equipment_attack_bonus = 0]

\* Weapon.equip and Armor.equip: [target, item]
equipment_equip(item, character) ==
    IF can_equip(item, character)
    THEN [target |-> [character EXCEPT !.attack = @ + item.amount],
          item |-> [item EXCEPT !.equipped = TRUE]]
    ELSE [target |-> character, item |-> item]

\* Weapon.unequip and Armor.unequip: [target, item]
equipment_unequip(item, character) ==
    [target |-> [character EXCEPT !.attack = @ - item.amount],
     item |-> [item EXCEPT !.equipped = FALSE]]

\* Inventory.get_item: the first instance of the stack (the stack exists)
get_item(inv, name) == inv.items[StackIndex(inv, name)].insts[1]

\* the inventory after the object get_item returns has become item
put_item(inv, name, item) ==
    [inv EXCEPT !.items[StackIndex(inv, name)].insts[1] = item]

\* the amount by which the bonuses applied on the hero exceed the base
applied_bonus(h) == h.attack - h.base_attack

\* hero.equip_weapon(weapon)
EquipWeapon(weapon) ==
    /\ pc = "idle" /\ lvl.pc = "idle"
    /\ LET r == equip_weapon(hero, weapon)
       IN  /\ hero' = r.hero
           /\ last' = [op |-> "equip_weapon", ok |-> r.ok, name |-> weapon.name,
                       qty |-> 0,
                       before |-> hero.attack,
                       held |-> hero.equipment_attack_bonus]
    /\ UNCHANGED <<inventory, monster, pc, result, turn, log, combats, lvl,
                 zone, slots, loop>>

\* hero.unequip_weapon(weapon)
UnequipWeapon ==
    /\ pc = "idle" /\ lvl.pc = "idle"
    /\ hero' = unequip_weapon(hero, StarterSword)
    /\ last' = IF last.op = "equip_weapon" /\ last.ok
               THEN [last EXCEPT !.op = "equip_unequip_weapon"]
               ELSE [NoOp EXCEPT !.op = "unequip_weapon"]
    /\ UNCHANGED <<inventory, monster, pc, result, turn, log, combats, lvl,
                 zone, slots, loop>>

\* hero.inventory.get_item(name).use(hero) for a piece of equipment
ItemUse(name) ==
    /\ pc = "idle" /\ lvl.pc = "idle"
    /\ StackIndex(inventory, name) # 0
    /\ LET r == item_use(get_item(inventory, name), hero)
       IN  /\ hero' = r.target
           /\ inventory' = put_item(inventory, name, r.item)
           /\ last' = [op |-> "use", ok |-> r.ok, name |-> name, qty |-> 0,
                       before |-> 0, held |-> 0]
    /\ UNCHANGED <<monster, pc, result, turn, log, combats, lvl,
                 zone, slots, loop>>

\* hero.inventory.get_item(name).equip(hero)
ItemEquip(name) ==
    /\ pc = "idle" /\ lvl.pc = "idle"
    /\ StackIndex(inventory, name) # 0
    /\ LET r == equipment_equip(get_item(inventory, name), hero)
       IN  /\ applied_bonus(r.target) <= MaxBonusDrift
           /\ hero' = r.target
           /\ inventory' = put_item(inventory, name, r.item)
           /\ last' = [op |-> "equip", ok |-> r.item.equipped, name |-> name,
                       qty |-> 0, before |-> hero.attack, held |-> 0]
    /\ UNCHANGED <<monster, pc, result, turn, log, combats, lvl,
                 zone, slots, loop>>

\* hero.inventory.get_item(name).unequip(hero)
ItemUnequip(name) ==
    /\ pc = "idle" /\ lvl.pc = "idle"
    /\ StackIndex(inventory, name) # 0
    /\ LET r == equipment_unequip(get_item(inventory, name), hero)
       IN  /\ applied_bonus(r.target) >= 0 - MaxBonusDrift
           /\ hero' = r.target
           /\ inventory' = put_item(inventory, name, r.item)
           /\ last' = [op |-> IF last.op = "equip" /\ last.ok /\ last.name = name
                              THEN "equip_unequip" ELSE "unequip",
                       ok |-> TRUE, name |-> name, qty |-> 0,
                       before |-> IF last.op = "equip" /\ last.ok /\ last.name = name
                                  THEN last.before ELSE 0,
                       held |-> 0]
    /\ UNCHANGED <<monster, pc, result, turn, log, combats, lvl,
                 zone, slots, loop>>

\* hero.use_item(name)
UseItem(name) ==
    /\ pc = "idle" /\ lvl.pc = "idle"
    /\ LET r == use_item(hero, inventory, name)
       IN  /\ hero' = r.hero
           /\ inventory' = r.inv
           /\ last' = [op |-> "use_item", ok |-> r.ok, name |-> name, qty |-> 1,
                       before |-> 0, held |-> 0]
    /\ UNCHANGED <<monster, pc, result, turn, log, combats, lvl,
                 zone, slots, loop>>

\* hero.gain_experience(100) between two equipment calls
LevelUpCall ==
    /\ pc = "idle" /\ lvl.pc = "idle"
    /\ hero.level < MaxEquipLevel
    /\ hero' = [hero EXCEPT !.experience = @ + FirstThreshold]
    /\ lvl' = [pc |-> "loop", kind |-> "hero", amount |-> FirstThreshold,
               iters |-> 0, leveled_up |-> FALSE, pre |-> hero]
    /\ last' = [NoOp EXCEPT !.op = "gain_experience"]
    /\ UNCHANGED <<inventory, monster, pc, result, turn, log, combats,
                 zone, slots, loop>>

NextEquip ==
    \/ \E weapon \in Weapons : EquipWeapon(weapon)
    \/ UnequipWeapon
    \/ \E name \in EquipmentNames : ItemUse(name)
    \/ \E name \in EquipmentNames : ItemEquip(name)
    \/ \E name \in EquipmentNames : ItemUnequip(name)
    \/ \E name \in EquipmentNames : UseItem(name)
    \/ LevelUpCall
    \/ GainExperienceStep
    \/ ExperienceReturn

SpecEquip == Init /\ [][NextEquip]_vars

(***************************************************************************)
(* Inventory calls and the save codec: Inventory (models/inventory.py),    *)
(* Hero.to_dict / from_dict (models/hero.py), Zone.to_dict / from_dict     *)
(* (models/world/zone.py), GameStateService (services/game_state_service.py)*)
(***************************************************************************)
\* bounds of the inventory session
MaxGoldAmount == 1
MaxGold == 1
MaxRemoveQuantity == 2

\* the items handed to add_item; the bread of the starter gear is the only
\* Food of a session
AddableItems == {NewHealthPotion}
\* the names handed to remove_item and use_item; no item is named Elixir
RequestedNames == {"Health Potion", "Bread", "Elixir"}
\* the damage dealt to the hero between two calls
DamageAmounts == {HeroDefaultHealth \div 2}

\* Inventory.add_gold
add_gold(inv, amount) == [inv EXCEPT !.gold = @ + amount]

remove_gold_unchecked(inv, amount) ==
    [ok |-> TRUE, inv |-> [inv EXCEPT !.gold = @ - amount]]

\* Inventory.remove_gold: [ok, inv]
remove_gold(inv, amount) ==
    IF inv.gold >= amount
    THEN [ok |-> TRUE, inv |-> [inv EXCEPT !.gold = @ - amount]]
    ELSE [ok |-> FALSE, inv |-> inv]

\* len(self.items[name]), 0 for a name that is no key
stack_size(inv, name) ==
    IF StackIndex(inv, name) = 0 THEN 0
    ELSE Len(inv.items[StackIndex(inv, name)].insts)

\* Inventory.get_unique_items, with the class of each stack
get_unique_items(inv) ==
    { <<inv.items[i].name, inv.items[i].insts[1].type, Len(inv.items[i].insts)>> :
         i \in 1..Len(inv.items) }

\* Item.to_dict: the fields the reconstruction reads
item_to_dict(item) == [name |-> item.name, type |-> item.type]

\* Inventory.to_dict
inventory_to_dict(inv) ==
    [max_slots |-> inv.max_slots,
     gold |-> inv.gold,
     items |-> [i \in 1..Len(inv.items) |->
                  [name |-> inv.items[i].name,
                   dicts |-> [j \in 1..Len(inv.items[i].insts) |->
                                  item_to_dict(inv.items[i].insts[j])]]]]

RECURSIVE FlattenDicts(_)
\* the order in which Inventory.from_dict meets the item records
FlattenDicts(stacks) ==
    IF stacks = <<>> THEN <<>>
    ELSE Head(stacks).dicts \o FlattenDicts(Tail(stacks))

RECURSIVE rebuild_items(_, _)
\* Inventory.from_dict lines 207-216: a HealthPotion record becomes a new
\* HealthPotion(), a Weapon record a new starter sword, any other record
\* nothing
rebuild_items(inv, dicts) ==
    IF dicts = <<>> THEN inv
    ELSE LET d == Head(dicts)
             next == IF d.type = "HealthPotion" THEN add_item(inv, NewHealthPotion).inv
                     ELSE IF d.type = "Weapon" THEN add_item(inv, StarterSword).inv
                     ELSE inv
         IN  rebuild_items(next, Tail(dicts))

\* Inventory.from_dict
inventory_from_dict(data) ==
    rebuild_items([max_slots |-> data.max_slots, gold |-> data.gold, items |-> <<>>],
                  FlattenDicts(data.items))

\* Hero.to_dict
hero_to_dict(h, inv) ==
    [health |-> h.health, attack |-> h.attack, level |-> h.level,
     experience |-> h.experience, experience_to_next |-> h.experience_to_next,
     skill_points |-> h.skill_points, base_health |-> h.base_health,
     base_attack |-> h.base_attack, inventory |-> inventory_to_dict(inv)]

\* Hero.from_dict: [hero, inv]; Hero.__init__ runs first, so the equipment
\* bonuses and the guard start afresh
hero_from_dict(data) ==
    [hero |-> [NewHero(data.base_health, data.base_attack) EXCEPT
                 !.health = data.health,
                 !.attack = data.attack,
                 !.level = data.level,
                 !.experience = data.experience,
                 !.experience_to_next = data.experience_to_next,
                 !.skill_points = data.skill_points],
     inv |-> inventory_from_dict(data.inventory)]

\* Zone.to_dict
zone_to_dict(z) ==
    [name |-> z.name, danger_level |-> z.danger_level, discovered |-> z.discovered,
     visited |-> z.visited, type |-> z.type]

\* dict.get(key, default)
dict_get(data, key, default) == IF key \in DOMAIN data THEN data[key] ELSE default

\* Zone.from_dict called on the class cls: [raised, error, zone]. data["name"]
\* raises KeyError when the key is missing; then cls(name=, description=,
\* danger_level=) is called, and SafeZone.__init__ takes no danger_level and
\* raises TypeError
zone_from_dict(cls, data) ==
    IF "name" \notin DOMAIN data
    THEN [raised |-> TRUE, error |-> "KeyError", zone |-> create_town]
    ELSE IF cls = "SafeZone"
    THEN [raised |-> TRUE, error |-> "TypeError", zone |-> create_town]
    ELSE [raised |-> FALSE, error |-> "none",
          zone |-> [name |-> data.name, type |-> cls,
                    danger_level |-> dict_get(data, "danger_level", 1),
                    discovered |-> dict_get(data, "discovered", FALSE),
                    visited |-> dict_get(data, "visited", FALSE),
                    monster_types |-> DefaultMonsterTypes]]

\* GameStateService.save_game: the record written to the slot
save_game(h, inv, z, slot) ==
    [hero |-> hero_to_dict(h, inv), current_zone |-> zone_to_dict(z),
     game_version |-> "1.0.0", save_slot |-> slot]

\* GameStateService.reconstruct_game_state: [raised, error, hero, inv, zone];
\* the except clause prints and raises again
reconstruct_game_state(save_data) ==
    LET h == hero_from_dict(save_data.hero)
        zone_type == dict_get(save_data.current_zone, "type", "CombatZone")
        z == IF zone_type = "SafeZone"
             THEN zone_from_dict("SafeZone", save_data.current_zone)
             ELSE zone_from_dict("CombatZone", save_data.current_zone)
    IN  [raised |-> z.raised, error |-> z.error,
         hero |-> h.hero, inv |-> h.inv, zone |-> z.zone]

\* GameStateService._validate_save_data
validate_save_data(data) ==
    {"hero", "current_zone", "game_version"} \subseteq DOMAIN data

\* GameStateService.load_game on a slot whose file is file: [ok, data], ok
\* false where the code returns None: no file (line 74), json.load raising
\* (caught at line 89), a required field missing (line 82)
load_game(file) ==
    IF file.kind = "json" /\ validate_save_data(file.data)
    THEN [ok |-> TRUE, data |-> file.data]
    ELSE [ok |-> FALSE, data |-> [none |-> TRUE]]

\* save_game(hero, zone, slot), then reconstruct_game_state(load_game(slot)):
\* [raised, error, hero, inv, zone]
save_load_round_trip(h, inv, z, slot) ==
    reconstruct_game_state(load_game(JsonFile(save_game(h, inv, z, slot))).data)

\* hero.inventory.add_item(item)
AddItem(item) ==
    /\ pc = "idle" /\ lvl.pc = "idle"
    /\ LET r == add_item(inventory, item)
       IN  /\ inventory' = r.inv
           /\ last' = [NoOp EXCEPT !.op = "add_item", !.ok = r.ok,
                                   !.name = item.name, !.qty = 1]
    /\ UNCHANGED <<hero, monster, pc, result, turn, log, combats, lvl,
                 zone, slots, loop>>

\* hero.inventory.remove_item(name, quantity)
RemoveItem(name, quantity) ==
    /\ pc = "idle" /\ lvl.pc = "idle"
    /\ LET r == remove_item(inventory, name, quantity)
       IN  /\ inventory' = r.inv
           /\ last' = [NoOp EXCEPT !.op = "remove_item", !.ok = r.ok,
                                   !.name = name, !.qty = quantity]
    /\ UNCHANGED <<hero, monster, pc, result, turn, log, combats, lvl,
                 zone, slots, loop>>

\* hero.inventory.add_gold(amount)
AddGold(amount) ==
    /\ pc = "idle" /\ lvl.pc = "idle"
    /\ inventory.gold + amount <= MaxGold
    /\ inventory' = add_gold(inventory, amount)
    /\ last' = [NoOp EXCEPT !.op = "add_gold", !.qty = amount]
    /\ UNCHANGED <<hero, monster, pc, result, turn, log, combats, lvl,
                 zone, slots, loop>>

\* hero.inventory.remove_gold(amount)
RemoveGold(amount) ==
    /\ pc = "idle" /\ lvl.pc = "idle"
    /\ LET r == remove_gold(inventory, amount)
       IN  /\ inventory' = r.inv
           /\ last' = [NoOp EXCEPT !.op = "remove_gold", !.ok = r.ok,
                                   !.qty = amount]
    /\ UNCHANGED <<hero, monster, pc, result, turn, log, combats, lvl,
                 zone, slots, loop>>

\* hero.take_damage(amount)
TakeDamage(amount) ==
    /\ pc = "idle" /\ lvl.pc = "idle"
    /\ hero' = take_damage(hero, amount)
    /\ last' = [NoOp EXCEPT !.op = "take_damage", !.qty = amount]
    /\ UNCHANGED <<inventory, monster, pc, result, turn, log, combats, lvl,
                 zone, slots, loop>>

\* the game is saved in the zone z and the session goes on with what
\* reconstruct_game_state builds from the record; when it raises, nothing is
\* replaced
Reconstruct(z) ==
    /\ pc = "idle" /\ lvl.pc = "idle"
    /\ LET r == save_load_round_trip(hero, inventory, z, 1)
       IN  /\ hero' = IF r.raised THEN hero ELSE r.hero
           /\ inventory' = IF r.raised THEN inventory ELSE r.inv
           /\ last' = [NoOp EXCEPT !.op = "reconstruct", !.ok = ~r.raised,
                                   !.name = z.name]
    /\ UNCHANGED <<monster, pc, result, turn, log, combats, lvl,
                 zone, slots, loop>>

NextInventory ==
    \/ \E item \in AddableItems : AddItem(item)
    \/ \E name \in RequestedNames, quantity \in 1..MaxRemoveQuantity :
          RemoveItem(name, quantity)
    \/ \E name \in RequestedNames : UseItem(name)
    \/ \E amount \in 0..MaxGoldAmount : AddGold(amount)
    \/ \E amount \in 0..MaxGoldAmount : RemoveGold(amount)
    \/ \E amount \in DamageAmounts : TakeDamage(amount)
    \/ \E z \in Zones : Reconstruct(z)

SpecInventory == Init /\ [][NextInventory]_vars

(***************************************************************************)
(* Stacks of the inventory (models/inventory.py)                           *)
(***************************************************************************)
\* the most items held in the stack session
MaxHeld == 7

\* HealthPotion(heal_amount=30): a second kind of instance for the stack
\* "Health Potion"
WeakPotionHeal == 30

\* the items added in the stack session
StackItems ==
    {NewHealthPotion, [NewHealthPotion EXCEPT !.amount = WeakPotionHeal], NewFood}

\* self.items.get(name, []): the instances held under a name, oldest first
stack_of(inv, name) ==
    IF StackIndex(inv, name) = 0 THEN <<>>
    ELSE inv.items[StackIndex(inv, name)].insts

\* hero.inventory.add_item(item) while fewer than MaxHeld items are held
StackAdd(item) ==
    /\ get_total_slots_used(inventory) < MaxHeld
    /\ AddItem(item)

\* hero.inventory.get_item(name): last.held is what it returns, 0 for None
GetItem(name) ==
    /\ pc = "idle" /\ lvl.pc = "idle"
    /\ last' = [NoOp EXCEPT !.op = "get_item", !.name = name,
                            !.ok = StackIndex(inventory, name) # 0,
                            !.held = IF StackIndex(inventory, name) # 0
                                     THEN get_item(inventory, name) ELSE 0]
    /\ UNCHANGED <<hero, inventory, monster, pc, result, turn, log, combats, lvl,
                   zone, slots, loop>>

NextStack ==
    \/ \E item \in StackItems : StackAdd(item)
    \/ \E name \in RequestedNames, quantity \in 0..MaxRemoveQuantity :
          RemoveItem(name, quantity)
    \/ \E name \in RequestedNames : GetItem(name)
    \/ \E amount \in 0..MaxGoldAmount : AddGold(amount)

SpecStack == Init /\ [][NextStack]_vars

(***************************************************************************)
(* Healing: consumables used by a hero who is wounded or has levelled up   *)
(* (models/items/consumable.py, models/hero.py)                            *)
(***************************************************************************)
\* the consumables added and used in the healing session
HealItems == {NewHealthPotion, NewFood}

NextHeal ==
    \/ \E item \in HealItems : StackAdd(item)
    \/ \E item \in HealItems : UseItem(item.name)
    \/ \E amount \in DamageAmounts : TakeDamage(amount)
    \/ LevelUpCall
    \/ GainExperienceStep
    \/ ExperienceReturn

SpecHeal == Init /\ [][NextHeal]_vars

(***************************************************************************)
(* Equipment across a save and a load (models/hero.py,                     *)
(* services/game_state_service.py)                                         *)
(***************************************************************************)
\* the game is saved and loaded in the zone z while the attack is at most
\* MaxBonusDrift above the base
SaveAndLoad(z) ==
    /\ applied_bonus(hero) <= MaxBonusDrift
    /\ Reconstruct(z)

NextEquipSave ==
    \/ \E weapon \in Weapons : EquipWeapon(weapon)
    \/ UnequipWeapon
    \/ \E z \in Zones : SaveAndLoad(z)

SpecEquipSave == Init /\ [][NextEquipSave]_vars

(***************************************************************************)
(* Encounters: Zone.generate_random_encounter and                          *)
(* CombatZone._create_zone_monster (models/world/zone.py) over the catalog *)
(* of data/monsters.py                                                     *)
(***************************************************************************)
\* bound of the zone session: danger levels 1..MaxDangerLevel
MaxDangerLevel == 9

\* program constants of _create_zone_monster
HealthPerDanger == 10
AttackPerDanger == 2

\* 0.3 is the float 5404319552844595 * 2^-54
FloatThreeTenths == <<3276, 13107, 3276, 4915>>
\* the largest value of random.random(): 1 - 2^-53
DrawMax == <<16376, 16383, 16383, 16383>>
\* random.random() returns a multiple of 2^-53, which is 8 units of 2^-56
DrawStep == <<8>>

\* CATALOGO_MONSTRUOS
CATALOGO_MONSTRUOS ==
    <<[name |-> "Goblin", vidas |-> MonsterBaseHealth, ataque |-> MonsterBaseAttack],
      [name |-> "Ogro", vidas |-> MonsterBaseHealth, ataque |-> MonsterBaseAttack],
      [name |-> "Orco", vidas |-> MonsterBaseHealth, ataque |-> MonsterBaseAttack],
      [name |-> "Slime", vidas |-> MonsterBaseHealth, ataque |-> MonsterBaseAttack]>>

\* get_monster_names: the names of the catalog, in its order
get_monster_names == [i \in 1..Len(CATALOGO_MONSTRUOS) |-> CATALOGO_MONSTRUOS[i].name]

\* get_monster_stats: a copy of the catalog's base health and attack
get_monster_stats(name) ==
    LET i == CHOOSE k \in 1..Len(CATALOGO_MONSTRUOS) : CATALOGO_MONSTRUOS[k].name = name
    IN  [health |-> CATALOGO_MONSTRUOS[i].vidas, attack |-> CATALOGO_MONSTRUOS[i].ataque]

\* the members of a list
Members(list) == {list[i] : i \in 1..Len(list)}

\* SafeZone.can_have_combat, CombatZone.can_have_combat
can_have_combat(z) == z.type = "CombatZone"

\* CombatZone.__init__ line 205: monster_types or the default list
combat_zone(name, danger_level, monster_types) ==
    [name |-> name, type |-> "CombatZone", danger_level |-> danger_level,
     discovered |-> FALSE, visited |-> FALSE,
     monster_types |-> IF monster_types = <<>> THEN DefaultMonsterTypes
                       ELSE monster_types]

\* generate_random_encounter lines 75-78: 0.3, then += (danger_level - 1) * 0.1,
\* in floats, for danger_level >= 1
encounter_chance(danger_level) ==
    float_round(BigNorm(BigAddCarry(
        FloatThreeTenths,
        float_round(BigNorm(BigMulCarry(FloatTenth, danger_level - 1, 0))), 0)))

\* random.random() < encounter_chance
draw_below(draw, chance) == BigLess(BigNorm(draw), BigNorm(chance))

\* _create_zone_monster lines 229-231: the allowed names the catalog knows,
\* or every name of the catalog when there is none
available_monsters(z) ==
    LET known == SelectSeq(z.monster_types,
                           LAMBDA m : m \in Members(get_monster_names))
    IN  IF known = <<>> THEN get_monster_names ELSE known

create_zone_monster_unscaled(z, monster_name) ==
    NewMonster(monster_name, get_monster_stats(monster_name).health,
               get_monster_stats(monster_name).attack)

\* CombatZone._create_zone_monster, monster_name being what random.choice
\* returned
create_zone_monster(z, monster_name) ==
    LET stats == get_monster_stats(monster_name)
    IN  NewMonster(monster_name,
                   stats.health + (z.danger_level - 1) * HealthPerDanger,
                   stats.attack + (z.danger_level - 1) * AttackPerDanger)

generate_random_encounter_capped(z, draw, monster_name) ==
    IF ~can_have_combat(z)
    THEN [found |-> FALSE, monster |-> NoMonster]
    ELSE IF /\ draw_below(draw, encounter_chance(z.danger_level))
            /\ draw_below(draw, BigNorm(BigSubBorrow(FloatOne, FloatTenth, 0)))
    THEN [found |-> TRUE, monster |-> create_zone_monster(z, monster_name)]
    ELSE [found |-> FALSE, monster |-> NoMonster]

\* Zone.generate_random_encounter, draw being what random.random() returned
\* and monster_name what random.choice returned: [found, monster], found
\* false where the code returns None
generate_random_encounter(z, draw, monster_name) ==
    IF ~can_have_combat(z)
    THEN [found |-> FALSE, monster |-> NoMonster]
    ELSE IF draw_below(draw, encounter_chance(z.danger_level))
    THEN [found |-> TRUE, monster |-> create_zone_monster(z, monster_name)]
    ELSE [found |-> FALSE, monster |-> NoMonster]

\* d rounded down to a value random.random() can return, at most DrawMax
as_draw(d) ==
    LET n == BigNorm(d)
        floor == BigNorm(BigSubBorrow(n, <<BigDivRem(n, 8).r>>, 0))
    IN  IF BigLess(DrawMax, floor) THEN DrawMax ELSE floor

\* the draws tried in a zone: the smallest, the largest, and the three next
\* to the zone's encounter chance
Draws(z) ==
    LET chance == encounter_chance(Max(z.danger_level, 1))
    IN  << <<>>,
           as_draw(BigSubBorrow(chance, DrawStep, 0)),
           as_draw(chance),
           as_draw(BigAddCarry(chance, DrawStep, 0)),
           DrawMax >>

\* the predefined zones, and combat zones of every danger level with their
\* own allow-lists or none
TestZones ==
    {create_town, create_forest, create_cave, create_mountain, create_castle}
    \cup { combat_zone("Arena", d, types) :
             d \in 1..MaxDangerLevel, types \in {<<"Slime">>, <<>>} }

\* the player is in the zone z
EnterZone(z) ==
    /\ pc = "idle" /\ lvl.pc = "idle"
    /\ zone' = z
    /\ monster' = NoMonster
    /\ last' = [NoOp EXCEPT !.op = "enter"]
    /\ UNCHANGED <<hero, inventory, pc, result, turn, log, combats, lvl,
                   slots, loop>>

\* zone.generate_random_encounter(): random.random() returns the i-th draw
\* and random.choice returns monster_name
Encounter(i, monster_name) ==
    /\ pc = "idle" /\ lvl.pc = "idle"
    /\ i \in 1..Len(Draws(zone))
    /\ monster_name \in Members(IF can_have_combat(zone)
                                THEN available_monsters(zone)
                                ELSE get_monster_names)
    /\ LET r == generate_random_encounter(zone, Draws(zone)[i], monster_name)
       IN  /\ monster' = r.monster
           /\ last' = [NoOp EXCEPT !.op = "encounter", !.ok = r.found,
                                   !.name = IF r.found THEN monster_name ELSE "none",
                                   !.qty = i]
    /\ UNCHANGED <<hero, inventory, pc, result, turn, log, combats, lvl,
                   zone, slots, loop>>

NextZone ==
    \/ \E z \in TestZones : EnterZone(z)
    \/ \E i \in 1..5, monster_name \in Members(get_monster_names) :
          Encounter(i, monster_name)

SpecZone == Init /\ [][NextZone]_vars

(***************************************************************************)
(* Save files: GameStateService (services/game_state_service.py) as called *)
(* by GameService._save_game, _load_game and _handle_travel                *)
(* (services/game_service.py)                                              *)
(***************************************************************************)
\* bounds of the save session
MaxManualSaves == 1
MaxSlotInput == 4

\* what open(filename, 'w') does: it opens the file, or it raises OSError
WriteOutcomes == {"written", "failed"}

\* what can happen to a save file between a save and a load
Damages == {"deleted", "garbled", "no_hero", "no_current_zone", "no_game_version",
            "no_zone_name", "no_zone_type", "unknown_zone_type"}

\* a dict without the key
dict_without(data, key) == [k \in DOMAIN data \ {key} |-> data[k]]

\* the file after the damage how
damaged(file, how) ==
    CASE how = "deleted" -> NoFile
      [] how = "garbled" -> Garbled
      [] how = "no_hero" -> JsonFile(dict_without(file.data, "hero"))
      [] how = "no_current_zone" -> JsonFile(dict_without(file.data, "current_zone"))
      [] how = "no_game_version" -> JsonFile(dict_without(file.data, "game_version"))
      [] how = "no_zone_name" ->
            JsonFile([file.data EXCEPT !.current_zone = dict_without(@, "name")])
      [] how = "no_zone_type" ->
            JsonFile([file.data EXCEPT !.current_zone = dict_without(@, "type")])
      [] OTHER ->
            JsonFile([file.data EXCEPT !.current_zone.type = "DungeonZone"])

\* a file as save_game wrote it
intact(file) ==
    /\ file.kind = "json"
    /\ validate_save_data(file.data)
    /\ {"name", "type"} \subseteq DOMAIN file.data.current_zone
    /\ file.data.current_zone.type \in {"SafeZone", "CombatZone"}

write_save_to_next_slot(files, h, inv, z, slot, outcome) ==
    IF outcome = "written"
    THEN [ok |-> TRUE,
          files |-> [files EXCEPT ![(slot + 1) % (LastManualSlot + 1)] =
                                     JsonFile(save_game(h, inv, z, slot))]]
    ELSE [ok |-> FALSE, files |-> files]

\* GameStateService.save_game as a call: [ok, files]. The file of the slot
\* is opened for writing and the record dumped into it; an exception is
\* caught and False returned
write_save(files, h, inv, z, slot, outcome) ==
    IF outcome = "written"
    THEN [ok |-> TRUE,
          files |-> [files EXCEPT ![slot] = JsonFile(save_game(h, inv, z, slot))]]
    ELSE [ok |-> FALSE, files |-> files]

\* GameStateService.list_save_files: the "exists" entry of a slot; a file that
\* json.load cannot read counts as not existing
save_exists(file) == file.kind = "json"

\* GameService._load_game once the player has typed: [outcome, hero, inv,
\* zone], outcome "loaded" (True), "failed" (False) or "raised" (an exception
\* other than ValueError and KeyError leaves the method)
game_load(files, h, inv, z, numeric, slot) ==
    LET failed == [outcome |-> "failed", hero |-> h, inv |-> inv, zone |-> z]
    IN  IF ~numeric THEN failed
        ELSE IF ~(FirstManualSlot <= slot /\ slot <= LastManualSlot) THEN failed
        ELSE IF ~save_exists(files[slot]) THEN failed
        ELSE IF ~load_game(files[slot]).ok THEN failed
        ELSE LET r == reconstruct_game_state(load_game(files[slot]).data)
             IN  IF ~r.raised
                 THEN [outcome |-> "loaded", hero |-> r.hero, inv |-> r.inv,
                       zone |-> r.zone]
                 ELSE IF r.error \in {"KeyError", "ValueError"} THEN failed
                 ELSE [failed EXCEPT !.outcome = "raised"]

\* GameService._handle_travel once the player has typed: the current zone
handle_travel(z, numeric, choice) ==
    LET zones == <<create_forest, create_cave, create_town>>
    IN  IF numeric /\ 1 <= choice /\ choice <= Len(zones)
                   /\ zones[choice].name # z.name
        THEN mark_visited(mark_discovered(zones[choice]))
        ELSE z

\* GameService._save_game: the player types a slot number
ManualSave(slot, outcome) ==
    /\ loop.pc = "prompt" /\ pc = "idle"
    /\ loop.manual < MaxManualSaves
    /\ LET valid == FirstManualSlot <= slot /\ slot <= LastManualSlot
           r == write_save(slots, hero, inventory, zone, slot, outcome)
       IN  /\ slots' = IF valid THEN r.files ELSE slots
           /\ last' = [NoOp EXCEPT !.op = "save_game", !.ok = valid /\ r.ok,
                                   !.qty = slot]
    /\ loop' = [loop EXCEPT !.manual = @ + 1]
    /\ UNCHANGED <<hero, inventory, monster, pc, result, turn, log, combats, lvl,
                   zone>>

\* a file written by save_game is deleted or altered outside the game
FileDamaged(slot, how) ==
    /\ loop.pc = "prompt" /\ pc = "idle"
    /\ intact(slots[slot])
    /\ slots' = [slots EXCEPT ![slot] = damaged(@, how)]
    /\ last' = [NoOp EXCEPT !.op = "damage", !.name = how]
    /\ UNCHANGED <<hero, inventory, monster, pc, result, turn, log, combats, lvl,
                   zone, loop>>

\* GameService._load_game: the player types a slot number
LoadGame(numeric, slot) ==
    /\ loop.pc = "prompt" /\ pc = "idle"
    /\ LET r == game_load(slots, hero, inventory, zone, numeric, slot)
       IN  /\ hero' = r.hero
           /\ inventory' = r.inv
           /\ zone' = r.zone
           /\ last' = [NoOp EXCEPT !.op = "load_game", !.ok = r.outcome = "loaded",
                                   !.name = r.outcome, !.qty = slot]
           /\ loop' = IF r.outcome = "raised" THEN [loop EXCEPT !.pc = "crashed"]
                      ELSE loop
    /\ UNCHANGED <<monster, pc, result, turn, log, combats, lvl, slots>>

\* GameService._handle_travel: the player types a destination
Travel(numeric, choice) ==
    /\ loop.pc = "prompt" /\ pc = "idle"
    /\ zone' = handle_travel(zone, numeric, choice)
    /\ last' = [NoOp EXCEPT !.op = "travel"]
    /\ UNCHANGED <<hero, inventory, monster, pc, result, turn, log, combats, lvl,
                   slots, loop>>

NextSave ==
    \/ \E slot \in 0..MaxSlotInput, outcome \in WriteOutcomes : ManualSave(slot, outcome)
    \/ \E slot \in FirstManualSlot..LastManualSlot, how \in Damages :
          FileDamaged(slot, how)
    \/ \E numeric \in BOOLEAN, slot \in 0..MaxSlotInput : LoadGame(numeric, slot)
    \/ \E numeric \in BOOLEAN, choice \in 0..MaxSlotInput : Travel(numeric, choice)

SpecSave == Init /\ [][NextSave]_vars

(***************************************************************************)
(* The main game loop (services/game_service.py)                           *)
(***************************************************************************)
\* the number of actions the player takes in a session
MaxActions == 2

\* the choices the player makes in a combat of the session: attack, defend,
\* and a number that is no option
GameCombatChoices == {1, 2, 5}

\* _main_game_loop line 113 and line 120: where the loop goes once the
\* action is handled, break for a confirmed quit and the auto-save otherwise
after_action(action, confirmed) ==
    IF action = "quit" /\ confirmed THEN "ended" ELSE "autosave"

exploration_next_without_combat(found) == "autosave"

\* _handle_exploration lines 151-154: start_combat is called when a monster
\* was found and the method returns only after it has
exploration_next(found) == IF found THEN "combat" ELSE "autosave"

auto_save_propagates(files, h, inv, z, outcome) ==
    LET r == write_save(files, h, inv, z, AutoSaveSlot, outcome)
    IN  [raised |-> ~r.ok, files |-> r.files]

\* GameStateService.auto_save as a call: [raised, files]; whatever save_game
\* returns is dropped and whatever it raises is caught
auto_save(files, h, inv, z, outcome) ==
    LET r == write_save(files, h, inv, z, AutoSaveSlot, outcome)
    IN  [raised |-> FALSE, files |-> r.files]

\* the loop's record once an action was taken
handled(action, next) ==
    [loop EXCEPT !.pc = next, !.action = action, !.actions = @ + 1]

\* _main_game_loop lines 100-101: the prompt is shown and an action awaited
AtPrompt ==
    /\ loop.pc = "prompt" /\ pc = "idle" /\ lvl.pc = "idle"
    /\ loop.actions < MaxActions

\* action "explore": _handle_exploration up to the call of start_combat;
\* random.random() returns the i-th draw, random.choice monster_name
GameExplore(i, monster_name) ==
    /\ AtPrompt
    /\ i \in 1..Len(Draws(zone))
    /\ monster_name \in Members(IF can_have_combat(zone)
                                THEN available_monsters(zone)
                                ELSE get_monster_names)
    /\ LET r == generate_random_encounter(zone, Draws(zone)[i], monster_name)
       IN  /\ monster' = r.monster
           /\ pc' = IF r.found THEN "loop" ELSE "idle"
           /\ combats' = IF r.found THEN combats + 1 ELSE combats
           /\ loop' = handled("explore", exploration_next(r.found))
           /\ last' = [NoOp EXCEPT !.op = "explore", !.ok = r.found]
    /\ result' = "none"
    /\ turn' = NewTurn
    /\ log' = NewLog
    /\ UNCHANGED <<hero, inventory, lvl, zone, slots>>

\* _handle_exploration lines 154-166: start_combat has returned; a defeat is
\* announced and the method returns to the loop, a victory goes on to the
\* experience award
ExplorationReturns ==
    /\ loop.pc = "combat" /\ pc = "returned"
    /\ monster' = NoMonster
    /\ IF result = "victory"
       THEN /\ pc' = "award"
            /\ loop' = loop
       ELSE /\ pc' = "idle"
            /\ loop' = [loop EXCEPT !.pc = after_action("explore", FALSE)]
    /\ turn' = NewTurn
    /\ log' = NewLog
    /\ UNCHANGED <<hero, inventory, result, combats, lvl, last, zone, slots>>

\* action "inventory": _show_inventory, the player typing a selection when
\* there are consumables
GameInventory(numeric, k) ==
    /\ AtPrompt
    /\ LET r == IF get_consumables(inventory) = <<>>
                THEN [hero |-> hero, inv |-> inventory]
                ELSE process_item_choice(hero, inventory, numeric, k)
       IN  /\ hero' = r.hero
           /\ inventory' = r.inv
    /\ loop' = handled("inventory", after_action("inventory", FALSE))
    /\ last' = [NoOp EXCEPT !.op = "inventory"]
    /\ UNCHANGED <<monster, pc, result, turn, log, combats, lvl, zone, slots>>

\* action "stats": the hero's statistics are shown
GameStats ==
    /\ AtPrompt
    /\ loop' = handled("stats", after_action("stats", FALSE))
    /\ last' = [NoOp EXCEPT !.op = "stats"]
    /\ UNCHANGED <<hero, inventory, monster, pc, result, turn, log, combats, lvl,
                   zone, slots>>

\* action "save": _save_game, the player typing a slot number
GameSave(numeric, slot, outcome) ==
    /\ AtPrompt
    /\ LET valid == numeric /\ FirstManualSlot <= slot /\ slot <= LastManualSlot
           r == write_save(slots, hero, inventory, zone, slot, outcome)
       IN  /\ slots' = IF valid THEN r.files ELSE slots
           /\ last' = [NoOp EXCEPT !.op = "save_game", !.ok = valid /\ r.ok,
                                   !.qty = slot,
                                   !.name = IF valid /\ save_exists(slots[slot])
                                               /\ r.files[slot] # slots[slot]
                                            THEN "replaced" ELSE "none"]
    /\ loop' = handled("save", after_action("save", FALSE))
    /\ UNCHANGED <<hero, inventory, monster, pc, result, turn, log, combats, lvl,
                   zone>>

\* action "travel": _handle_travel, the player typing a destination
GameTravel(numeric, choice) ==
    /\ AtPrompt
    /\ zone' = handle_travel(zone, numeric, choice)
    /\ loop' = handled("travel", after_action("travel", FALSE))
    /\ last' = [NoOp EXCEPT !.op = "travel"]
    /\ UNCHANGED <<hero, inventory, monster, pc, result, turn, log, combats, lvl,
                   slots>>

\* action "quit": _confirm_quit, the player answering
GameQuit(confirmed) ==
    /\ AtPrompt
    /\ loop' = handled("quit", after_action("quit", confirmed))
    /\ last' = [NoOp EXCEPT !.op = "quit", !.ok = confirmed]
    /\ UNCHANGED <<hero, inventory, monster, pc, result, turn, log, combats, lvl,
                   zone, slots>>

\* any other input: "Invalid action."
GameInvalid ==
    /\ AtPrompt
    /\ loop' = handled("invalid", after_action("invalid", FALSE))
    /\ last' = [NoOp EXCEPT !.op = "invalid"]
    /\ UNCHANGED <<hero, inventory, monster, pc, result, turn, log, combats, lvl,
                   zone, slots>>

\* _main_game_loop line 120: the auto-save, after which the loop shows the
\* prompt again
AutoSave(outcome) ==
    /\ loop.pc = "autosave"
    /\ LET r == auto_save(slots, hero, inventory, zone, outcome)
       IN  /\ slots' = r.files
           /\ loop' = [loop EXCEPT
                         !.pc = IF r.raised THEN "crashed" ELSE "prompt",
                         !.autosave = IF outcome = "written" THEN "ok" ELSE "failed"]
    /\ last' = [NoOp EXCEPT !.op = "auto_save", !.ok = outcome = "written",
                            !.qty = AutoSaveSlot,
                            !.name = IF save_exists(slots[AutoSaveSlot])
                                        /\ slots'[AutoSaveSlot] # slots[AutoSaveSlot]
                                     THEN "replaced" ELSE "none"]
    /\ UNCHANGED <<hero, inventory, monster, pc, result, turn, log, combats, lvl,
                   zone>>

NextGame ==
    \/ \E i \in 1..5, monster_name \in Members(get_monster_names) :
          GameExplore(i, monster_name)
    \/ LoopCheck
    \/ \E c \in GameCombatChoices : HeroAction(c)
    \/ MonsterPhase
    \/ ExplorationReturns
    \/ \E numeric \in BOOLEAN, k \in 0..MaxItemInput : GameInventory(numeric, k)
    \/ GameStats
    \/ \E numeric \in BOOLEAN, slot \in 0..MaxSlotInput, outcome \in WriteOutcomes :
          GameSave(numeric, slot, outcome)
    \/ \E numeric \in BOOLEAN, choice \in 0..MaxSlotInput : GameTravel(numeric, choice)
    \/ \E confirmed \in BOOLEAN : GameQuit(confirmed)
    \/ GameInvalid
    \/ \E outcome \in WriteOutcomes : AutoSave(outcome)

SpecGame == Init /\ [][NextGame]_vars

(***************************************************************************)
(* Properties of the combat engine, checked under Spec                     *)
(***************************************************************************)
InCombat == pc \in {"loop", "await", "item", "monster", "returned", "raised"}

\* the monster's turn of a turn has just been taken
TurnJustEnded == pc = "loop" /\ log.turns > 0

\* C1: start_combat returns only when a combatant's health is 0; it returns
\* victory exactly when the monster's health is 0 and the hero is alive, and
\* defeat exactly when the hero's health is 0; a hero and a living monster
\* that entered a combat are never both at health 0.
C1_ReturnsOnlyAtZeroHealth ==
    /\ pc = "returned" =>
          /\ hero.health = 0 \/ monster.health = 0
          /\ (result = "victory") <=> (monster.health = 0 /\ hero.health > 0)
          /\ (result = "defeat") <=> (hero.health = 0)
    /\ pc # "returned" => result = "none" \/ pc \in {"idle", "award"}
    /\ InCombat => ~(hero.health = 0 /\ monster.health = 0)

\* a fought combat has returned a defeat
C1_Witness ==
    pc = "returned" /\ result = "defeat" /\ log.hits > 0 /\ monster.health > 0

\* C2: in every turn the hero's action is resolved first and the living
\* monster then attacks exactly once; the engine cycles through awaiting the
\* choice, the hero's action and the monster's action until a combatant is
\* at health 0.
C2_TurnCycle ==
    [][ /\ (pc = "await" /\ pc' # "await") => pc' \in {"item", "monster"}
        /\ (pc = "item" /\ pc' # "item") => pc' = "monster"
        /\ (pc = "monster" /\ pc' # "monster") =>
              /\ pc' = "loop"
              /\ turn'.hits = IF is_alive(monster) THEN 1 ELSE 0
              /\ ~is_alive(monster) => hero'.health = hero.health
        /\ (pc = "loop" /\ pc' # "loop") =>
              pc' = IF hero.health = 0 \/ monster.health = 0
                    THEN "returned" ELSE "await" ]_vars

\* C3: after a Defend the monster's hit of that turn deals floor(attack / 2)
\* and the guard is down right after it; in a turn without a Defend the hit
\* deals the full attack; no more hits are halved than Defends were chosen.
C3_DefenseHalvesOneHit ==
    /\ [](log.halved <= log.defends)
    /\ [][ (pc = "monster" /\ pc' = "loop" /\ is_alive(monster)) =>
              /\ ~hero'.is_defending
              /\ hero'.health =
                    IF turn.choice = 2
                    THEN Max(0, hero.health - (monster.attack \div 2))
                    ELSE Max(0, hero.health - monster.attack) ]_vars

\* a monster of attack 12 hit a defending hero for 6 and then, in the next
\* turn, the undefended hero for 12
C3_Witness ==
    /\ TurnJustEnded
    /\ monster.attack = 12
    /\ log.hits >= 2
    /\ log.prev.defended /\ log.prev.dmg = 6
    /\ ~log.last.defended /\ log.last.dmg = 12
    /\ log.last.pre = log.prev.pre - 6
    /\ hero.health = log.prev.pre - 18

\* C4: choosing Attack lowers the monster's health by get_total_attack(),
\* clamped at 0, and leaves the hero's health and inventory alone.
C4_AttackDealsTotalAttack ==
    [][ (pc = "await" /\ turn'.choice = 1) =>
           /\ monster'.health = Max(0, monster.health - get_total_attack(hero))
           /\ hero'.health = hero.health
           /\ inventory' = inventory ]_vars

\* C5: health is never negative, a hit leaves max(0, health - amount), and
\* the combat goes on only while both combatants have health > 0.
C5_HealthClampedAtZero ==
    /\ hero.health >= 0
    /\ monster.health >= 0
    /\ (TurnJustEnded /\ turn.hits = 1) =>
          hero.health = Max(0, log.last.pre - log.last.dmg)
    /\ pc \in {"await", "item", "monster"} => hero.health > 0 /\ monster.health > 0
    /\ (pc = "returned" /\ result = "defeat") => ~is_alive(hero)

\* a hit larger than the hero's remaining health left the hero at 0
C5_Witness ==
    /\ TurnJustEnded
    /\ turn.hits = 1
    /\ log.last.pre > 0
    /\ log.last.dmg > log.last.pre
    /\ hero.health = 0

\* the scenario of C6: the session's first combat, against a 60/12 monster,
\* the starter hero untouched, every turn an Attack
C6_InScenario ==
    /\ combats = 1
    /\ InCombat
    /\ monster.attack = MonsterBaseAttack
    /\ inventory = StarterInventory
    /\ log.turns >= 1
    /\ log.attacks = log.turns

\* C6: the scenario ends in a victory after exactly 5 attacks and 4 full
\* monster hits, the hero at health 52.
C6_ScenarioEndsAt52 ==
    (C6_InScenario /\ pc \in {"returned", "raised"}) =>
        /\ pc = "returned"
        /\ result = "victory"
        /\ log.attacks = 5
        /\ log.hits = 4
        /\ monster.health = 0
        /\ hero.health = 52

C8_ItemFailed == turn.choice = 3 /\ turn.item \in {"no_items", "invalid"}

\* C8 as claimed: after a failed Use Item the engine is back at the hero's
\* menu and the monster has not attacked.
C8_FailedItemReprompts ==
    C8_ItemFailed => (pc = "await" /\ turn.hits = 0)

\* C8 as amended: a failed Use Item changes nothing in the hero's phase but
\* consumes the turn: the engine goes on to the monster's turn, where the
\* living monster hits with its full attack.
C8_FailedItemForfeitsTurn ==
    [][ /\ (pc \in {"await", "item"} /\ C8_ItemFailed') =>
              /\ hero' = [hero EXCEPT !.is_defending = FALSE]
              /\ monster' = monster
              /\ inventory' = inventory
              /\ pc' = "monster"
        /\ (pc = "monster" /\ C8_ItemFailed /\ pc' = "loop") =>
              /\ turn'.hits = 1
              /\ hero'.health = Max(0, hero.health - monster.attack) ]_vars

\* Use Item was chosen with no consumable left and the monster then hit
C8_Witness ==
    /\ TurnJustEnded
    /\ turn.choice = 3
    /\ turn.item = "no_items"
    /\ get_consumables(inventory) = <<>>
    /\ turn.hits = 1
    /\ hero.health = Max(0, log.last.pre - monster.attack)

\* an invalid selection was typed at the item prompt and the monster then hit
C8_WitnessInvalid ==
    /\ TurnJustEnded
    /\ turn.item = "invalid"
    /\ turn.hits = 1

(***************************************************************************)
(* Properties of the leveling engine, checked under SpecLevel              *)
(***************************************************************************)
InCall == lvl.pc # "idle"

\* C9: every gain-experience call terminates and returns whether a level-up
\* occurred: no threshold is below FirstThreshold, so the call makes no more
\* passes through its level-up loop than the experience at hand can pay for.
C9_GainExperienceTerminates ==
    InCall =>
        /\ lvl.iters * FirstThreshold <= lvl.pre.experience + lvl.amount
        /\ lvl.pc = "done" => (lvl.leveled_up <=> lvl.iters > 0)

\* the threshold of the i-th level-up of a call (i = 0 for the first): the
\* hero's experience_to_next, growing by half each level, or the service's
\* requirement for the next level
RECURSIVE ThresholdAt(_, _, _)
ThresholdAt(kind, pre, i) ==
    IF kind = "hero"
    THEN IF i = 0 THEN pre.experience_to_next
         ELSE (ThresholdAt(kind, pre, i - 1) * 3) \div 2
    ELSE calculate_experience_for_level(pre.level + i + 1)

RECURSIVE ConsumedThresholds(_, _, _)
ConsumedThresholds(kind, pre, n) ==
    IF n = 0 THEN 0
    ELSE ConsumedThresholds(kind, pre, n - 1) + ThresholdAt(kind, pre, n - 1)

\* C10: the level never decreases; the n level-ups of a call raise the level
\* and the skill points by n, health and base health by 10 n, attack and base
\* attack by 2 n, and leave experience = experience before + amount - the n
\* consumed thresholds, which on return is below the next threshold.
C10_ExactlyOneLevelUpPerThreshold ==
    InCall =>
        LET n == lvl.iters
            pre == lvl.pre
        IN  /\ hero.level = pre.level + n
            /\ hero.skill_points = pre.skill_points + n
            /\ hero.health = pre.health + HealthGrowth * n
            /\ hero.base_health = pre.base_health + HealthGrowth * n
            /\ hero.attack = pre.attack + AttackGrowth * n
            /\ hero.base_attack = pre.base_attack + AttackGrowth * n
            /\ hero.experience =
                  pre.experience + lvl.amount - ConsumedThresholds(lvl.kind, pre, n)
            /\ lvl.pc = "done" => hero.experience < ThresholdAt(lvl.kind, pre, n)

\* C11: each single level-up, of either implementation, deducts the consumed
\* threshold from experience, raises the level by exactly 1, adds exactly 1
\* skill point, 10 to base health and health, 2 to base attack and attack,
\* and changes nothing else of the hero (the next threshold apart) nor the
\* inventory.
C11_SingleLevelUp ==
    [][ (lvl'.iters = lvl.iters + 1) =>
           /\ hero' = [hero EXCEPT
                         !.experience = @ - ThresholdAt(lvl.kind, hero, 0),
                         !.level = @ + 1,
                         !.skill_points = @ + 1,
                         !.base_health = @ + HealthGrowth,
                         !.health = @ + HealthGrowth,
                         !.base_attack = @ + AttackGrowth,
                         !.attack = @ + AttackGrowth,
                         !.experience_to_next = hero'.experience_to_next]
           /\ inventory' = inventory ]_vars

\* levels over which the requirement curve is examined
MaxReqLevel == 14

\* C12: requirement(n) is strictly increasing, equals the table for levels
\* 1-10 and grows by 500 per level from level 10 on; the threshold a hero at
\* level L must meet to level up is requirement(L + 1), as a total or as the
\* step from requirement(L).
C12_RequirementCurve ==
    /\ \A n \in 1..MaxReqLevel :
          calculate_experience_for_level(n) < calculate_experience_for_level(n + 1)
    /\ \A n \in 1..LastTableLevel :
          calculate_experience_for_level(n) = XP_REQUIREMENTS[n]
    /\ \A n \in LastTableLevel..MaxReqLevel :
          calculate_experience_for_level(n + 1) - calculate_experience_for_level(n)
             = LinearStep
    /\ hero.experience_to_next \in
          { calculate_experience_for_level(hero.level + 1),
            calculate_experience_for_level(hero.level + 1)
               - calculate_experience_for_level(hero.level) }

\* enemy and hero levels over which the reward is examined
MaxRewardLevel == 9

\* trunc(25 * m) in exact arithmetic, in tenths: m = 1.5 + 0.2 d above,
\* 1 at, and max(0.1, 1 + 0.1 d) below the hero's level
C13_ExactReward(d) ==
    IF d > 0 THEN (375 + 50 * d) \div 10
    ELSE IF d < 0 THEN Max(25, 250 + 25 * d) \div 10
    ELSE XpUnit

\* C13: for all enemy and hero levels the reward is trunc(25 * m), it is
\* never below 2, and it never decreases when the enemy level grows with the
\* hero level fixed.
C13_ExperienceReward ==
    \A e \in 1..MaxRewardLevel, h \in {hero.level} \cup 1..MaxRewardLevel :
        /\ get_experience_reward(e, h) = C13_ExactReward(e - h)
        /\ get_experience_reward(e, h) >= 2
        /\ get_experience_reward(e, h) <= get_experience_reward(e + 1, h)

(***************************************************************************)
(* Properties of the equipment operations, checked under SpecEquip         *)
(***************************************************************************)
\* C14: after every equip or unequip, through the hero's methods or the
\* item's own, and after every level-up,
\* attack = base_attack + equipment_attack_bonus.
C14_AttackIsBasePlusBonus ==
    hero.attack = hero.base_attack + hero.equipment_attack_bonus

\* C15 as claimed: from any reachable state, another weapon equipped or not,
\* equipping an allowed weapon and then unequipping it leaves attack at its
\* value before the equip.
C15_RoundTripRestoresAttack ==
    last.op \in {"equip_unequip_weapon", "equip_unequip"} =>
        hero.attack = last.before

\* C15 as amended: the round trip through the weapon's own equip and unequip
\* restores attack; the round trip through Hero.equip_weapon and
\* Hero.unequip_weapon leaves attack at its value before the equip less the
\* bonus held in equipment_attack_bonus at that moment, which the equip
\* replaced, and so restores attack exactly when no such bonus was held.
C15_RoundTripDropsHeldBonus ==
    /\ last.op = "equip_unequip" => hero.attack = last.before
    /\ last.op = "equip_unequip_weapon" =>
          /\ hero.attack = last.before - last.held
          /\ hero.equipment_attack_bonus = 0

\* a weapon was equipped through Hero.equip_weapon over another one and
\* unequipped again: attack is lower than before the equip
C15_Witness ==
    /\ last.op = "equip_unequip_weapon"
    /\ last.held > 0
    /\ hero.attack = last.before - last.held
    /\ hero.attack < last.before

RECURSIVE EquippedBonus(_)
\* the sum of the bonuses of the items whose equipped flag is true
EquippedBonus(items) ==
    IF items = <<>> THEN 0
    ELSE (IF Head(items).equipped THEN Head(items).amount ELSE 0)
         + EquippedBonus(Tail(items))

\* C16: in every reachable state the amount by which attack exceeds
\* base_attack is the sum of the bonuses of the items whose equipped flag is
\* true.
C16_BonusAppliedWhileEquipped ==
    applied_bonus(hero) = EquippedBonus(get_all_items(inventory))

(***************************************************************************)
(* Properties of the inventory calls, checked under SpecInventory          *)
(***************************************************************************)
\* C17: the total number of items held never exceeds max_slots, whatever
\* add_item, remove_item, use_item, the starter gear and the reconstruction
\* from a save did before
C17_SlotsNeverExceeded ==
    get_total_slots_used(inventory) <= inventory.max_slots

\* an add_item on a full inventory was refused
C17_Witness ==
    /\ last.op = "add_item"
    /\ ~last.ok
    /\ get_total_slots_used(inventory) = inventory.max_slots

\* C18: an add_item on a full inventory, a remove_item of more instances
\* than the named stack holds (none for an unknown name) and a remove_gold of
\* more gold than is held return false and leave items and gold as they
\* were; these are the only calls of the three that return false; and with
\* amounts of zero or more the gold is never negative
C18_FailingCallStep ==
    /\ last'.op = "add_item" =>
          /\ last'.ok <=> get_total_slots_used(inventory) < inventory.max_slots
          /\ ~last'.ok => inventory' = inventory /\ hero' = hero
    /\ last'.op = "remove_item" =>
          /\ last'.ok <=> stack_size(inventory, last'.name) >= last'.qty
          /\ ~last'.ok => inventory' = inventory /\ hero' = hero
    /\ last'.op = "remove_gold" =>
          /\ last'.ok <=> inventory.gold >= last'.qty
          /\ ~last'.ok => inventory' = inventory /\ hero' = hero
    /\ inventory.gold >= 0 /\ inventory'.gold >= 0

C18_FailingCallsChangeNothing == [][C18_FailingCallStep]_vars

\* a remove_item asked for more instances than the stack of that name holds
C18_Witness ==
    /\ last.op = "remove_item"
    /\ ~last.ok
    /\ stack_size(inventory, last.name) > 0
    /\ stack_size(inventory, last.name) < last.qty

\* the names an inventory of the session can hold
HeldNames == {"Iron Sword", "Leather Armor", "Health Potion", "Bread"}

\* C19: Hero.use_item(name) on a consumable returns true exactly when the
\* item is held and its use is not refused (a dead hero, or a health potion
\* at 100 health or more); a successful call removes one instance of that
\* name and nothing else from the inventory; a failing call leaves the hero
\* and the inventory as they were
C19_UseItemStep ==
    last'.op = "use_item" =>
       LET name == last'.name
           refused == \/ hero.health = 0
                      \/ name = "Health Potion" /\ hero.health >= HealCap
       IN  /\ last'.ok <=> stack_size(inventory, name) > 0 /\ ~refused
           /\ last'.ok =>
                 /\ stack_size(inventory', name) = stack_size(inventory, name) - 1
                 /\ \A other \in HeldNames \ {name} :
                       stack_size(inventory', other) = stack_size(inventory, other)
                 /\ get_total_slots_used(inventory') =
                       get_total_slots_used(inventory) - 1
                 /\ inventory'.gold = inventory.gold
           /\ ~last'.ok => hero' = hero /\ inventory' = inventory

C19_UseItemRemovesOnSuccess == [][C19_UseItemStep]_vars

\* the hero drank the only health potion held: the call returned true and
\* the stack is gone
C19_Witness ==
    /\ last.op = "use_item"
    /\ last.ok
    /\ last.name = "Health Potion"
    /\ stack_size(inventory, "Health Potion") = 0
    /\ hero.health > HeroDefaultHealth \div 2

\* C20: in every zone, a safe one as well as a combat one, saving the game
\* and reconstructing it from the loaded record succeeds and gives back the
\* hero's health, attack, level and experience, the inventory's item names,
\* classes and quantities and its gold, and the zone's class and danger level
C20_SaveLoadRoundTrip ==
    \A z \in Zones :
       LET r == save_load_round_trip(hero, inventory, z, 1)
       IN  /\ load_game(JsonFile(save_game(hero, inventory, z, 1))).ok
           /\ ~r.raised
           /\ r.hero.health = hero.health
           /\ r.hero.attack = hero.attack
           /\ r.hero.level = hero.level
           /\ r.hero.experience = hero.experience
           /\ get_unique_items(r.inv) = get_unique_items(inventory)
           /\ r.inv.gold = inventory.gold
           /\ r.zone.type = z.type
           /\ r.zone.danger_level = z.danger_level

(***************************************************************************)
(* Properties of the save files, checked under SpecSave                    *)
(***************************************************************************)
\* C21: load_game gives no data for a slot without a file, with a file that
\* cannot be read, or with a record lacking hero, current_zone or
\* game_version; and a load that does not succeed, also because the
\* reconstruction failed, returns a failure to its caller, raises nothing and
\* leaves hero, inventory and current zone as they were
C21_LoadStep ==
    /\ \A slot \in SaveSlots :
          load_game(slots[slot]).ok =>
             /\ slots[slot].kind = "json"
             /\ {"hero", "current_zone", "game_version"} \subseteq
                   DOMAIN slots[slot].data
    /\ last'.op = "load_game" =>
          /\ last'.name \in {"loaded", "failed"}
          /\ ~last'.ok => hero' = hero /\ inventory' = inventory /\ zone' = zone

C21_LoadFailsClosed == [][C21_LoadStep]_vars

\* the zone classes a save record can name
ZoneTags == {"SafeZone", "CombatZone"}

\* C22: reconstruct_game_state fails on every record whose current_zone has
\* no type tag or a tag other than SafeZone and CombatZone; it never returns a
\* hero and a zone for such a record
C22_UnknownZoneTagRejected ==
    \A slot \in SaveSlots :
       LET file == slots[slot]
       IN  (/\ file.kind = "json"
            /\ validate_save_data(file.data)
            /\ \/ "type" \notin DOMAIN file.data.current_zone
               \/ file.data.current_zone.type \notin ZoneTags)
           => reconstruct_game_state(file.data).raised

(***************************************************************************)
(* Properties of the encounters, checked under SpecZone                    *)
(***************************************************************************)
\* draw < 0.3 + 0.1 * (danger_level - 1) in exact arithmetic:
\* 10 * draw < danger_level + 2
below_exact_chance(draw, danger_level) ==
    BigLess(BigNorm(BigMulCarry(draw, 10, 0)),
            BigNorm(BigMulCarry(FloatOne, danger_level + 2, 0)))

\* C27: generate_random_encounter returns no monster in a SafeZone, whatever
\* the draw; in a CombatZone it returns a monster exactly when the draw is
\* below 0.3 + 0.1 * (danger_level - 1)
C27_EncounterStep ==
    last'.op = "encounter" =>
       LET draw == Draws(zone)[last'.qty]
       IN  /\ ~can_have_combat(zone) => ~last'.ok /\ monster' = NoMonster
           /\ can_have_combat(zone) =>
                 (last'.ok <=> below_exact_chance(draw, zone.danger_level))

C27_EncounterRule == [][C27_EncounterStep]_vars

\* C28: the monster a CombatZone generates bears a name of the catalog, and
\* a name of the zone's allow-list whenever that list is not empty
C28_MonsterFromAllowList ==
    (last.op = "encounter" /\ last.ok) =>
       /\ monster.name \in Members(get_monster_names)
       /\ zone.monster_types # <<>> => monster.name \in Members(zone.monster_types)

\* the catalog's entry of a name
catalog_entry(name) ==
    CHOOSE e \in Members(CATALOGO_MONSTRUOS) : e.name = name

C30_HighDangerAlwaysEncounters ==
    (last.op = "encounter" /\ can_have_combat(zone) /\ zone.danger_level >= 8)
       => last.ok /\ monster # NoMonster

C30_Witness ==
    /\ last.op = "encounter" /\ last.ok
    /\ can_have_combat(zone) /\ zone.danger_level >= 8
    /\ Draws(zone)[last.qty] = DrawMax

(***************************************************************************)
(* Properties of the main game loop, checked under SpecGame                *)
(***************************************************************************)
\* the step is the handling of the action "save"
SaveActionStep ==
    loop.pc = "prompt" /\ loop'.actions = loop.actions + 1 /\ loop'.action = "save"

\* the step is the auto-save
AutoSaveStep == loop.pc = "autosave" /\ loop'.pc # "autosave"

\* the step is a call of save_game that returned True
SavedStep ==
    /\ SaveActionStep \/ AutoSaveStep
    /\ last'.op \in {"save_game", "auto_save"} /\ last'.ok

C23_SaveStep ==
    IF SavedStep
    THEN LET s == last'.qty
             snapshot == [hero |-> hero_to_dict(hero, inventory),
                          current_zone |-> zone_to_dict(zone),
                          game_version |-> "1.0.0", save_slot |-> s]
         IN  /\ slots'[s] = JsonFile(snapshot)
             /\ \A other \in SaveSlots \ {s} : slots'[other] = slots[other]
             /\ load_game(slots'[s]) = [ok |-> TRUE, data |-> snapshot]
    ELSE slots' = slots

C24_LoopStep ==
    /\ (loop'.pc # loop.pc /\ loop'.pc \in {"prompt", "ended"}) =>
          /\ AutoSaveStep
          /\ last'.ok =>
                slots'[AutoSaveSlot] =
                   JsonFile(save_game(hero', inventory', zone', AutoSaveSlot))
    /\ slots'[AutoSaveSlot] # slots[AutoSaveSlot] => AutoSaveStep
    /\ \A s \in SaveSlots \ {AutoSaveSlot} :
          slots'[s] # slots[s] =>
             SaveActionStep /\ FirstManualSlot <= s /\ s <= LastManualSlot

\* C24: the loop shows the prompt again, or ends, only through an auto-save,
\* which leaves the hero and the zone in slot 0; only the auto-save writes
\* slot 0 and only the action "save" writes the slots 1 to 3
C24_AutoSaveAfterEveryAction == [][C24_LoopStep]_vars

C25_AutoSaveStep ==
    AutoSaveStep =>
       /\ loop'.pc = "prompt"
       /\ hero' = hero /\ inventory' = inventory /\ zone' = zone
       /\ ~last'.ok => slots' = slots

\* C25: the auto-save propagates no error: when the write of slot 0 fails,
\* the hero, the zone and the slots are as before and the loop shows the
\* prompt again
C25_AutoSaveSwallowsFailure == [][C25_AutoSaveStep]_vars

C25_Witness ==
    /\ last.op = "auto_save" /\ ~last.ok
    /\ loop.pc = "prompt" /\ loop.autosave = "failed"
    /\ loop.actions < MaxActions

C26_WriteStep ==
    slots' # slots =>
       /\ ~InCombat /\ ~InCombat'
       /\ monster = NoMonster
       /\ loop.pc \in {"prompt", "autosave"}

\* C26: no slot is written while a combat is going on
C26_NoSaveDuringCombat == [][C26_WriteStep]_vars

C26_Witness ==
    /\ last.op = "auto_save" /\ last.ok
    /\ loop.action = "explore" /\ combats > 0
    /\ hero.health < HeroDefaultHealth
    /\ slots[AutoSaveSlot] = JsonFile(save_game(hero, inventory, zone, AutoSaveSlot))

(***************************************************************************)
(* Further properties of the combat, checked under Spec                    *)
(***************************************************************************)
\* C31: in every turn reset_defense is applied to the hero once, when the
\* hero's action phase begins, and not again until the turn is over, whatever
\* the hero chose
C31_ResetOncePerTurn ==
    /\ pc \in {"item", "monster"} => turn.resets = 1
    /\ TurnJustEnded => turn.resets = 1

(***************************************************************************)
(* Properties of the stacks, checked under SpecStack                       *)
(***************************************************************************)
\* the names under which the session holds or requests items
StackNames == RequestedNames \cup HeldNames

C32_StackStep ==
    /\ (last'.op = "remove_item" /\ last'.ok) =>
          LET s == stack_of(inventory, last'.name)
          IN  /\ stack_of(inventory', last'.name) =
                    SubSeq(s, 1, Len(s) - last'.qty)
              /\ \A other \in StackNames \ {last'.name} :
                    stack_of(inventory', other) = stack_of(inventory, other)
              /\ inventory'.gold = inventory.gold
    /\ (last'.op = "add_item" /\ last'.ok) =>
          /\ Len(stack_of(inventory', last'.name)) =
                Len(stack_of(inventory, last'.name)) + 1
          /\ SubSeq(stack_of(inventory', last'.name), 1,
                    Len(stack_of(inventory, last'.name))) =
                stack_of(inventory, last'.name)
    /\ last'.op = "get_item" =>
          /\ inventory' = inventory
          /\ last'.ok = (stack_of(inventory, last'.name) # <<>>)
          /\ last'.ok => last'.held = Head(stack_of(inventory, last'.name))
    /\ \A i \in 1..Len(inventory'.items) : inventory'.items[i].insts # <<>>

\* C32: a successful remove_item drops the most recently added instances of
\* the named stack and keeps the rest in the order they were added, changes
\* no other stack and no gold, and leaves no empty stack behind; get_item
\* returns the oldest instance and removes nothing
C32_RemoveIsLastInFirstOut == [][C32_StackStep]_vars

C32_Witness ==
    /\ last.op = "remove_item" /\ last.ok /\ last.name = "Health Potion"
    /\ last.qty = 1
    /\ Len(stack_of(inventory, "Health Potion")) = 2
    /\ stack_of(inventory, "Health Potion")[1].amount = PotionHeal
    /\ stack_of(inventory, "Health Potion")[2].amount = WeakPotionHeal

\* C33: a combat always comes to its end, a victory or a defeat, whatever the
\* hero chooses: no turn is abandoned, and since every turn costs the hero at
\* least half the monster's attack and the healing items are finite, the
\* turns of a combat are bounded by the health there is to lose
C33_CombatTerminates ==
    InCombat =>
       /\ pc # "raised"
       /\ pc = "returned" => result \in {"victory", "defeat"}
       /\ log.turns <= (HeroDefaultHealth + PotionHeal + FoodHeal)
                          \div (MonsterBaseAttack \div 2) + 1

\* C34: whenever the hero's choice is awaited, and when a combat has ended,
\* the hero is not defending: the guard of a Defend is cleared by the monster's
\* attack of the same turn and reaches no later turn and no later combat
C34_NoGuardAtTurnBoundary ==
    pc \in {"idle", "loop", "await", "returned"} => ~hero.is_defending

C34_Witness ==
    /\ pc = "returned" /\ result = "defeat"
    /\ log.defends > 0 /\ log.last.defended
    /\ ~hero.is_defending

(***************************************************************************)
(* Further properties of the main game loop, checked under SpecGame        *)
(***************************************************************************)
C35_DeadHeroStep ==
    hero.health = 0 =>
       /\ hero'.health = 0
       /\ hero'.experience = hero.experience /\ hero'.level = hero.level
       /\ inventory' = inventory
       /\ pc' \notin {"await", "item", "monster", "award", "raised"}
       /\ pc = "loop" =>
             /\ pc' = "returned" /\ result' = "defeat"
             /\ monster' = monster /\ log' = log

\* C35: once the hero's health is 0 it stays 0: no consumable can be used,
\* every later combat returns a defeat without a turn being played or the
\* monster being touched, and no experience is granted
C35_DeadHeroStaysDead == [][C35_DeadHeroStep]_vars

C35_Witness ==
    /\ hero.health = 0
    /\ combats = 2 /\ pc = "returned" /\ result = "defeat"
    /\ log.turns = 0 /\ is_alive(monster)

(***************************************************************************)
(* Properties of healing, checked under SpecHeal                           *)
(***************************************************************************)
C36_UseStep ==
    last'.op = "use_item" =>
       /\ hero'.health >= hero.health
       /\ last'.ok => hero'.health > hero.health
       /\ ~last'.ok => inventory' = inventory

\* C36: using a Health Potion or Food never lowers the hero's health, also
\* when the health is above 100 after level-ups, and a use that would not
\* raise the health is refused and consumes nothing
C36_ConsumableNeverLowersHealth == [][C36_UseStep]_vars

(***************************************************************************)
(* Further properties of the equipment, checked under SpecEquip            *)
(***************************************************************************)
C37_UseEquipmentStep ==
    (last'.op = "use_item" /\ last'.name \in EquipmentNames) =>
       /\ stack_size(inventory', last'.name) = stack_size(inventory, last'.name)
       /\ applied_bonus(hero') > 0 =>
             \E name \in EquipmentNames :
                /\ stack_size(inventory', name) > 0
                /\ get_item(inventory', name).equipped

\* C37: Hero.use_item on a piece of equipment toggles it and leaves it in the
\* inventory, so an item whose bonus is applied to the hero is still held and
\* can be unequipped
C37_EquipmentStaysInInventory == [][C37_UseEquipmentStep]_vars

(***************************************************************************)
(* Properties of equipment across a save and a load, checked under         *)
(* SpecEquipSave                                                           *)
(***************************************************************************)
\* C38: a hero reconstructed from a save made with a weapon equipped still
\* has attack = base_attack + equipment_attack_bonus; unequipping the weapon
\* then returns the attack to base_attack, and equipping it again does not
\* apply the bonus a second time
C38_EquipmentSurvivesSaveLoad ==
    /\ (last.op = "reconstruct" /\ last.ok) =>
          hero.attack = hero.base_attack + hero.equipment_attack_bonus
    /\ last.op \in {"unequip_weapon", "equip_unequip_weapon"} =>
          hero.attack = hero.base_attack
    /\ (last.op = "equip_weapon" /\ last.ok) =>
          hero.attack = hero.base_attack + hero.equipment_attack_bonus

(***************************************************************************)
(* Further properties of leveling, checked under SpecLevel                 *)
(***************************************************************************)
\* the totals of experience examined: the hero's own and every multiple of
\* XpUnit up to the requirement of level MaxReqLevel + 1
ExaminedTotals ==
    {hero.experience} \cup
    { XpUnit * k : k \in 0..(calculate_experience_for_level(MaxReqLevel + 1) \div XpUnit) }

\* C39: calculate_level_from_experience inverts the requirement: the level of
\* requirement(L) is L, and the level L returned for a total x satisfies
\* requirement(L) <= x < requirement(L + 1), also beyond level 10
C39_LevelInvertsRequirement ==
    /\ \A level \in 1..MaxReqLevel :
          calculate_level_from_experience(calculate_experience_for_level(level)) = level
    /\ \A x \in ExaminedTotals :
          LET level == calculate_level_from_experience(x)
          IN  /\ calculate_experience_for_level(level) <= x
              /\ x < calculate_experience_for_level(level + 1)

RECURSIVE after_gain_experience(_)
\* the hero when the loop of Hero.gain_experience is left
after_gain_experience(h) ==
    IF hero_can_level_up(h) THEN after_gain_experience(hero_level_up(h)) ELSE h

\* C40: from the same hero and the same grant, process_experience_gain ends
\* with the level, skill points, base health and base attack that
\* Hero.gain_experience ends with, and reports as levels_gained the increase
\* of hero.level; on its way it applies no more level-ups than that
C40_ImplementationsAgree ==
    (lvl.kind = "service" /\ lvl.pc \in {"loop", "done"}) =>
       LET g == after_gain_experience(
                   [lvl.pre EXCEPT !.experience = @ + lvl.amount])
       IN  /\ lvl.iters <= g.level - lvl.pre.level
           /\ lvl.pc = "done" =>
                 /\ hero.level = g.level
                 /\ hero.skill_points = g.skill_points
                 /\ hero.base_health = g.base_health
                 /\ hero.base_attack = g.base_attack
                 /\ lvl.iters = hero.level - lvl.pre.level

====
